---------------------------- MODULE Spec2Model ----------------------------
(***************************************************************************)
(* A model of the storage backend (src/src/storage.rs, backup_io.rs,       *)
(* password_policy.rs): one database directory, the Storage instance that  *)
(* is open on it, its transaction registry, and one backup file with its   *)
(* DEK sidecar.                                                            *)
(*                                                                         *)
(* Byte strings are sequences of naturals below 256.  Option<T> is the     *)
(* empty sequence (None) or a one-element sequence (Some).  Results are    *)
(* strings naming the StorageError variant, or "Ok".                       *)
(*                                                                         *)
(* The engine (RocksDB TransactionDB) is modelled by its documented        *)
(* contract: committed contents ordered bytewise, pessimistic              *)
(* transactions that lock every key they put or delete until they are      *)
(* committed or dropped, and a lock request that times out when another    *)
(* transaction holds the key.  The two encryption libraries are modelled   *)
(* as perfect authenticated encryption: a container opens only under the   *)
(* key that made it.                                                       *)
(***************************************************************************)
EXTENDS Integers, Sequences, FiniteSets, Bags, TLC

VARIABLES
    exists,           \* the database directory exists on disk
    damaged,          \* the directory holds what a remove_dir_all that
                      \* failed left of the files of the database
    db,               \* committed engine contents: key bytes -> value bytes
    open,             \* a Storage instance is alive on the directory
    password,         \* Storage.password: Option of the resident DEK
    password_policy,  \* Storage.password_policy
    transactions,     \* Storage.transactions: handle -> pending operations
    uuids,            \* number of handles Uuid::new_v4 has produced
    restore_ids,      \* registered handles that restore_backup began
    backup_file,      \* Option of the backup file's contents
    dek_file,         \* Option of the sidecar file's contents
    last,             \* the last API call, what it returned, and how many
                      \* pending operations it committed or discarded
    snapshot,         \* history: the contents the last backup iterated
    issued,           \* history: the calls that succeeded on each registered
                      \* handle, as the caller made them
    ended,            \* history: the handles committed, rolled back or dropped
    shadow,           \* history: the contents that the calls committed so far
                      \* produce, one call after the other
    given,            \* history: for each key, the value the last committed
                      \* write of it was given
    passphrase,       \* history: the password the database was created with
                      \* or last changed to
    rotation,         \* history: the passwords of the last change_password
                      \* that returned Ok
    backup_rotation,  \* history: the passwords of the last
                      \* change_backup_password that returned Ok on the
                      \* sidecar
    discarded,        \* history: the keys with an operation pending on a
                      \* transaction when the Storage was last dropped, kept
                      \* until the Storage opened next is used
    backup_reader,    \* a BackupFileReader: inner, buf, pos, cap
    reads             \* history: the stream the reader was made on, the bytes
                      \* it has handed out, and the read_until call under way

vars == <<exists, damaged, db, open, password, password_policy, transactions, uuids,
          restore_ids, backup_file, dek_file, last, snapshot, issued, ended,
          shadow, given, passphrase, rotation, backup_rotation, discarded,
          backup_reader, reads>>

----------------------------------------------------------------------------
(* Bounds of the model. *)

\* Handles begin_transaction may hand out in one behaviour.
MaxTx == 2
\* Operations pending in the registry, over all its transactions.
MaxPending == 2
\* The number backup compares item_counter with before it writes a batch:
\* 1000 in the source (storage.rs:286), scaled down so that the databases of
\* the model fill several batches.
FlushAt == 2
\* Bytes of the buffer of a BackupFileReader: 8192 in the source
\* (backup_io.rs:58), scaled down so that the records of the model span
\* several fills of the buffer.
BufSize == 3

----------------------------------------------------------------------------
(* Bytes, strings, Option. *)

None == <<>>
Some(x) == <<x>>

\* F applied to the value of v: the value is computed once, before F is
\* applied to it.
With(v, F(_)) == CHOOSE y \in {F(x) : x \in {v}} : TRUE

Min(a, b) == IF a <= b THEN a ELSE b

RECURSIVE Concat(_)
Concat(ss) == IF ss = <<>> THEN <<>> ELSE Head(ss) \o Concat(Tail(ss))

\* Vec<u8>/str ordering: bytewise lexicographic, a proper prefix first.
BytesLess(a, b) ==
    \E i \in 1..(Min(Len(a), Len(b)) + 1) :
        /\ \A j \in 1..(i - 1) : a[j] = b[j]
        /\ i <= Len(b)
        /\ (i > Len(a) \/ a[i] < b[i])

BytesLeq(a, b) == a = b \/ BytesLess(a, b)

StartsWith(k, p) ==
    /\ Len(p) <= Len(k)
    /\ \A i \in 1..Len(p) : k[i] = p[i]

\* String::from_utf8: whether the bytes are well-formed UTF-8.
IsCont(b) == b >= 128 /\ b <= 191
RECURSIVE IsUtf8(_)
IsUtf8(s) ==
    IF s = <<>> THEN TRUE
    ELSE LET b == s[1] n == Len(s) IN
        IF b < 128 THEN IsUtf8(Tail(s))
        ELSE IF b >= 194 /\ b <= 223
            THEN n >= 2 /\ IsCont(s[2]) /\ IsUtf8(SubSeq(s, 3, n))
        ELSE IF b >= 224 /\ b <= 239
            THEN /\ n >= 3 /\ IsCont(s[2]) /\ IsCont(s[3])
                 /\ (b = 224 => s[2] >= 160)
                 /\ (b = 237 => s[2] <= 159)
                 /\ IsUtf8(SubSeq(s, 4, n))
        ELSE IF b >= 240 /\ b <= 244
            THEN /\ n >= 4 /\ IsCont(s[2]) /\ IsCont(s[3]) /\ IsCont(s[4])
                 /\ (b = 240 => s[2] >= 144)
                 /\ (b = 244 => s[2] <= 143)
                 /\ IsUtf8(SubSeq(s, 5, n))
        ELSE FALSE

----------------------------------------------------------------------------
(* hex::encode / hex::decode. *)

\* ASCII of the lowercase hex digit of a nibble.
HexDigit(n) == IF n < 10 THEN 48 + n ELSE 87 + n

\* A variant of hex::encode that yields the bytes as they are.
HexEncodeAsIs(bytes) == bytes

\* hex::encode: two lowercase digits for every byte.
RECURSIVE HexEncode(_)
HexEncode(bytes) ==
    IF bytes = <<>> THEN <<>>
    ELSE <<HexDigit(bytes[1] \div 16), HexDigit(bytes[1] % 16)>>
            \o HexEncode(Tail(bytes))

\* The nibble of an ASCII hex digit (either case), or -1.
HexVal(c) ==
    IF c >= 48 /\ c <= 57 THEN c - 48
    ELSE IF c >= 97 /\ c <= 102 THEN c - 87
    ELSE IF c >= 65 /\ c <= 70 THEN c - 55
    ELSE -1

HexOk(text) ==
    /\ Len(text) % 2 = 0
    /\ \A i \in 1..Len(text) : HexVal(text[i]) >= 0

\* hex::decode of a text for which HexOk holds.
RECURSIVE HexDecode(_)
HexDecode(text) ==
    IF Len(text) < 2 THEN <<>>
    ELSE <<16 * HexVal(text[1]) + HexVal(text[2])>>
            \o HexDecode(SubSeq(text, 3, Len(text)))

----------------------------------------------------------------------------
(* Passwords and the password policy (password_policy.rs). *)

\* str::as_bytes of a string given as its characters (code points).
RECURSIVE Utf8(_)
Utf8(chars) ==
    IF chars = <<>> THEN <<>>
    ELSE LET c == chars[1] IN
        (IF c < 128 THEN <<c>>
         ELSE IF c < 2048 THEN <<192 + (c \div 64), 128 + (c % 64)>>
         ELSE IF c < 65536
            THEN <<224 + (c \div 4096), 128 + ((c \div 64) % 64), 128 + (c % 64)>>
         ELSE <<240 + (c \div 262144), 128 + ((c \div 4096) % 64),
                128 + ((c \div 64) % 64), 128 + (c % 64)>>)
        \o Utf8(Tail(chars))

UPPERCASE == 65..90
DIGITS == 48..57
SPECIAL == (33..47) \cup (58..64) \cup (91..96) \cup (123..126)

CountIn(chars, set) == Cardinality({i \in 1..Len(chars) : chars[i] \in set})

DefaultPolicy ==
    [min_length |-> 12, min_number_of_special_chars |-> 3,
     min_number_of_uppercase |-> 3, min_number_of_digits |-> 3]

\* The policy the repository's tests open their databases with.
TestPolicy ==
    [min_length |-> 1, min_number_of_special_chars |-> 0,
     min_number_of_uppercase |-> 0, min_number_of_digits |-> 0]

\* PasswordPolicy::is_valid.  password.len() is the length in bytes.
IsValid(policy, pw) ==
    /\ Len(Utf8(pw)) >= policy.min_length
    /\ CountIn(pw, SPECIAL) >= policy.min_number_of_special_chars
    /\ CountIn(pw, UPPERCASE) >= policy.min_number_of_uppercase
    /\ CountIn(pw, DIGITS) >= policy.min_number_of_digits

\* open_db's choice of policy: the override, or the default.
PolicyOf(config) == IF config = None THEN DefaultPolicy ELSE config[1]

----------------------------------------------------------------------------
(* cocoon::Cocoon, a container sealed under a key (a passphrase or the     *)
(* DEK).  The header carries the magic bytes and the nonce; the key bytes  *)
(* stand for the salt and the MAC, which only the same key reproduces.     *)

CocoonMagic == <<127, 192, 10>>

SumBytes(s) == IF s = <<>> THEN 0 ELSE
    LET RECURSIVE F(_) F(i) == IF i = 0 THEN 0 ELSE s[i] + F(i - 1) IN F(Len(s))

KeyStream(key, nonce) == ((SumBytes(key) + nonce) % 255) + 1

\* The authentication tag of a container: one byte that depends on the key,
\* the nonce and every byte of the sealed data, each with an odd weight, so
\* that the tag of a container differs from the tag of every container that
\* differs from it in one byte.
CocoonTag(key, nonce, data) ==
    LET RECURSIVE Weighted(_)
        Weighted(i) ==
            IF i = 0 THEN 0
            ELSE (2 * i + 1) * ((data[i] + KeyStream(key, nonce)) % 256)
                    + Weighted(i - 1)
    IN (SumBytes(key) + 31 * nonce + Weighted(Len(data))) % 256

\* Cocoon::dump(data) under key, with the nonce the generator drew.
CocoonDump(key, nonce, data) ==
    CocoonMagic \o <<nonce, Len(key)>> \o key
        \o <<CocoonTag(key, nonce, data)>>
        \o [i \in 1..Len(data) |-> (data[i] + KeyStream(key, nonce)) % 256]

\* Cocoon::parse: Some(data), or None when the container is not one made
\* under key.
CocoonParse(key, blob) ==
    LET h == Len(CocoonMagic) + 2 + Len(key) IN
    IF /\ Len(blob) >= h + 1
       /\ SubSeq(blob, 1, Len(CocoonMagic)) = CocoonMagic
       /\ blob[Len(CocoonMagic) + 2] = Len(key)
       /\ SubSeq(blob, Len(CocoonMagic) + 3, h) = key
    THEN LET nonce == blob[Len(CocoonMagic) + 1]
             body == SubSeq(blob, h + 2, Len(blob))
             data == [i \in 1..Len(body) |->
                        (body[i] + 256 - KeyStream(key, nonce)) % 256]
         IN
         IF blob[h + 1] = CocoonTag(key, nonce, data) THEN Some(data) ELSE None
    ELSE None

----------------------------------------------------------------------------
(* The engine: ordered committed contents, transactions, key locks. *)

DEK_KEY == <<68, 69, 75>>

NoData == <<>>          \* the empty database

EnginePut(d, k, v) == [x \in (DOMAIN d) \cup {k} |-> IF x = k THEN v ELSE d[x]]
EngineDelete(d, k) == [x \in (DOMAIN d) \ {k} |-> d[x]]
EngineGet(d, k) == IF k \in DOMAIN d THEN Some(d[k]) ELSE None

\* The keys of S in ascending byte order.
RECURSIVE SortedKeys(_)
SortedKeys(S) ==
    IF S = {} THEN <<>>
    ELSE LET m == CHOOSE k \in S : \A j \in S : BytesLeq(k, j) IN
         <<m>> \o SortedKeys(S \ {m})

\* db.iterator(IteratorMode::Start): the entries in key order.
IterStart(d) == SortedKeys(DOMAIN d)
\* A variant of the iterator that starts at the first entry whatever `from`.
IterFromStart(d, from) == IterStart(d)

\* db.iterator(IteratorMode::From(key, Forward)): the entries from the first
\* key not below `from`.
IterFrom(d, from) == SortedKeys({k \in DOMAIN d : BytesLeq(from, k)})

PutOp(k, v) == [key |-> k, put |-> TRUE, value |-> v]
DeleteOp(k) == [key |-> k, put |-> FALSE, value |-> <<>>]

\* Transaction::commit: the write batch applied in issue order.
RECURSIVE ApplyOps(_, _)
ApplyOps(d, ops) ==
    IF ops = <<>> THEN d
    ELSE ApplyOps(IF Head(ops).put
                    THEN EnginePut(d, Head(ops).key, Head(ops).value)
                    ELSE EngineDelete(d, Head(ops).key),
                  Tail(ops))

\* Whether a transaction other than h holds the lock of key k: a put or a
\* delete locks its key until the transaction is committed or dropped, and a
\* request for a held lock times out.
Locked(k, h) ==
    \E g \in (DOMAIN transactions) \ {h} :
        \E i \in 1..Len(transactions[g]) : transactions[g][i].key = k

----------------------------------------------------------------------------
(* BackupFileReader (backup_io.rs): a buffered reader over the decrypted   *)
(* stream.  inner is what the stream reader has still to yield.            *)

\* BackupFileReader::new: a zeroed buffer, pos and cap 0.
BackupFileReaderNew(stream) ==
    [inner |-> stream, buf |-> [i \in 1..BufSize |-> 0], pos |-> 0, cap |-> 0]

\* What is recorded of the use of a reader made on a stream: nothing yet.
NoReads(stream) ==
    [stream |-> stream, delivered |-> <<>>, calling |-> FALSE, line |-> <<>>,
     rest |-> <<>>, returned |-> None, records |-> <<>>, mixed |-> FALSE]

\* The numbers of bytes that inner.read(&mut self.buf) may return: 0 at the
\* end of the stream only, and never more than the buffer holds.
InnerReads(r) ==
    IF r.inner = <<>> THEN {0} ELSE 1..Min(BufSize, Len(r.inner))

\* A variant of fill_buf that reads from inner whether or not the buffer
\* still holds bytes.
FillBufAlways(r, n) ==
    [r EXCEPT !.buf = [i \in 1..BufSize |-> IF i <= n THEN r.inner[i] ELSE r.buf[i]],
              !.inner = SubSeq(r.inner, n + 1, Len(r.inner)),
              !.cap = n,
              !.pos = 0]

\* fill_buf, inner.read returning n bytes if it is called: the reader
\* afterwards.
FillBuf(r, n) ==
    IF r.pos >= r.cap
    THEN [r EXCEPT !.buf = [i \in 1..BufSize |->
                                IF i <= n THEN r.inner[i] ELSE r.buf[i]],
                   !.inner = SubSeq(r.inner, n + 1, Len(r.inner)),
                   !.cap = n,
                   !.pos = 0]
    ELSE r

\* &self.buf[self.pos..self.cap], the slice that fill_buf returns.
Available(r) == SubSeq(r.buf, r.pos + 1, r.cap)

\* consume.
Consume(r, amt) == [r EXCEPT !.pos = Min(r.pos + amt, r.cap)]

\* The index of the first ';' of a slice, or 0.
Memchr(slice) ==
    IF \E i \in 1..Len(slice) : slice[i] = 59
    THEN CHOOSE i \in 1..Len(slice) :
            slice[i] = 59 /\ \A j \in 1..(i - 1) : slice[j] # 59
    ELSE 0

----------------------------------------------------------------------------
(* The Storage instance (storage.rs). *)

Result(op, res) == [op |-> op, res |-> res, n |-> 0]
ResultN(op, res, n) == [op |-> op, res |-> res, n |-> n]

Handles == 1..MaxTx

Init ==
    /\ exists = FALSE
    /\ damaged = FALSE
    /\ db = NoData
    /\ open = FALSE
    /\ password = None
    /\ password_policy = DefaultPolicy
    /\ transactions = <<>>
    /\ uuids = 0
    /\ restore_ids = {}
    /\ backup_file = None
    /\ dek_file = None
    /\ last = Result("none", "Ok")
    /\ snapshot = NoData
    /\ issued = <<>>
    /\ ended = {}
    /\ shadow = NoData
    /\ given = NoData
    /\ passphrase = None
    /\ rotation = None
    /\ backup_rotation = None
    /\ discarded = {}
    /\ backup_reader = BackupFileReaderNew(<<>>)
    /\ reads = NoReads(<<>>)

\* A variant of open_db whose engine creates the database when it is missing,
\* whatever the options.
OpenDbCreates(create, config_password, policy_config, bytes, nonce) ==
    LET op == IF create THEN "new" ELSE "open"
        policy == PolicyOf(policy_config)
        Kept == [db |-> db, shadow |-> shadow, given |-> given,
                 passphrase |-> passphrase, rotation |-> rotation]
        Lost == [db |-> NoData, shadow |-> NoData, given |-> NoData,
                 passphrase |-> None, rotation |-> None]
        Holds(f) ==
            /\ db' = f.db
            /\ shadow' = f.shadow
            /\ given' = f.given
            /\ passphrase' = f.passphrase
            /\ rotation' = f.rotation
        Fail(res, f) ==
            /\ last' = Result(op, res)
            /\ Holds(f)
            /\ UNCHANGED <<open, password, password_policy>>
        Opened(dek) ==
            /\ open' = TRUE
            /\ password' = dek
            /\ password_policy' = policy
            /\ last' = Result(op, "Ok")
        Refused == Fail("CreationError", Kept) /\ UNCHANGED <<exists, damaged>>
        Engine(f) ==
            /\ exists' = TRUE
            /\ damaged' = FALSE
            /\ IF config_password = None
               THEN Opened(None) /\ Holds(f)
               ELSE IF ~IsValid(policy, config_password[1])
               THEN Fail("WeakPassword", f)
               ELSE LET key == Utf8(config_password[1]) IN
                    IF DEK_KEY \in DOMAIN f.db
                    THEN LET dek == CocoonParse(key, f.db[DEK_KEY]) IN
                         IF dek = None
                         THEN Fail("WrongPassword", f)
                         ELSE Opened(dek) /\ Holds(f)
                    ELSE /\ db' = EnginePut(f.db, DEK_KEY,
                                            CocoonDump(key, nonce, bytes))
                         /\ shadow' = EnginePut(f.shadow, DEK_KEY,
                                                CocoonDump(key, nonce, bytes))
                         /\ passphrase' = config_password
                         /\ given' = f.given
                         /\ rotation' = f.rotation
                         /\ Opened(Some(bytes))
    IN
    /\ ~open
    /\ UNCHANGED <<transactions, uuids, restore_ids, discarded, backup_reader,
                   reads, backup_file, dek_file, snapshot, issued, ended,
                   backup_rotation>>
    /\ IF damaged
       THEN Refused \/ Engine(Kept) \/ Engine(Lost)
       ELSE IF FALSE THEN Refused
       ELSE Engine(Kept)

\* Storage::new_with_policy (create) and Storage::open_with_policy, through
\* open_db.  config_password is Option of the password's characters; bytes
\* and nonce are what the random generators yield if they are asked.  The
\* engine refuses a path without a database unless it is to create one.  In
\* a directory that a failed remove_dir_all left damaged, what the engine
\* finds depends on the files that are left, which the source does not
\* tell: TransactionDB::open returns its error, or a database with the
\* entries that were stored, or one without them.
OpenDb(create, config_password, policy_config, bytes, nonce) ==
    LET op == IF create THEN "new" ELSE "open"
        policy == PolicyOf(policy_config)
        Kept == [db |-> db, shadow |-> shadow, given |-> given,
                 passphrase |-> passphrase, rotation |-> rotation]
        Lost == [db |-> NoData, shadow |-> NoData, given |-> NoData,
                 passphrase |-> None, rotation |-> None]
        Holds(f) ==
            /\ db' = f.db
            /\ shadow' = f.shadow
            /\ given' = f.given
            /\ passphrase' = f.passphrase
            /\ rotation' = f.rotation
        Fail(res, f) ==
            /\ last' = Result(op, res)
            /\ Holds(f)
            /\ UNCHANGED <<open, password, password_policy>>
        Opened(dek) ==
            /\ open' = TRUE
            /\ password' = dek
            /\ password_policy' = policy
            /\ last' = Result(op, "Ok")
        Refused == Fail("CreationError", Kept) /\ UNCHANGED <<exists, damaged>>
        Engine(f) ==
            /\ exists' = TRUE
            /\ damaged' = FALSE
            /\ IF config_password = None
               THEN Opened(None) /\ Holds(f)
               ELSE IF ~IsValid(policy, config_password[1])
               THEN Fail("WeakPassword", f)
               ELSE LET key == Utf8(config_password[1]) IN
                    IF DEK_KEY \in DOMAIN f.db
                    THEN LET dek == CocoonParse(key, f.db[DEK_KEY]) IN
                         IF dek = None
                         THEN Fail("WrongPassword", f)
                         ELSE Opened(dek) /\ Holds(f)
                    ELSE /\ db' = EnginePut(f.db, DEK_KEY,
                                            CocoonDump(key, nonce, bytes))
                         /\ shadow' = EnginePut(f.shadow, DEK_KEY,
                                                CocoonDump(key, nonce, bytes))
                         /\ passphrase' = config_password
                         /\ given' = f.given
                         /\ rotation' = f.rotation
                         /\ Opened(Some(bytes))
    IN
    /\ ~open
    /\ UNCHANGED <<transactions, uuids, restore_ids, discarded, backup_reader,
                   reads, backup_file, dek_file, snapshot, issued, ended,
                   backup_rotation>>
    /\ IF damaged
       THEN Refused \/ Engine(Kept) \/ Engine(Lost)
       ELSE IF ~exists /\ ~create THEN Refused
       ELSE Engine(Kept)

\* The keys that an operation is pending on, on any registered transaction.
PendingKeys ==
    UNION {{transactions[h][i].key : i \in 1..Len(transactions[h])} :
                h \in DOMAIN transactions}

\* What dropping the Storage returns.  The engine handle (field db) is dropped
\* before the registry, so transactions still registered are destroyed after
\* the engine they point into: the drop then either returns or faults.
DropResults == IF DOMAIN transactions = {} THEN {"Ok"} ELSE {"Ok", "Fault"}

\* A variant of the drop that commits what is pending on the registered
\* transactions.
DropCommits ==
    LET RECURSIVE Applied(_, _)
        Applied(d, S) ==
            IF S = {} THEN d
            ELSE LET h == CHOOSE x \in S : TRUE IN
                 Applied(ApplyOps(d, transactions[h]), S \ {h})
    IN
    /\ open
    /\ open' = FALSE
    /\ password' = None
    /\ password_policy' = DefaultPolicy
    /\ transactions' = <<>>
    /\ issued' = <<>>
    /\ ended' = ended \cup DOMAIN transactions
    /\ db' = Applied(db, DOMAIN transactions)
    /\ \E res \in DropResults :
            last' = ResultN("drop", res, Cardinality(DOMAIN transactions))
    /\ discarded' = PendingKeys
    /\ UNCHANGED <<backup_reader, reads>>
    /\ UNCHANGED <<exists, damaged, uuids, restore_ids, backup_file, dek_file,
                   snapshot, shadow, given, passphrase, rotation, backup_rotation>>

\* Dropping the Storage.
Drop ==
    /\ open
    /\ open' = FALSE
    /\ password' = None
    /\ password_policy' = DefaultPolicy
    /\ transactions' = <<>>
    /\ issued' = <<>>
    /\ ended' = ended \cup DOMAIN transactions
    /\ \E res \in DropResults :
            last' = ResultN("drop", res, Cardinality(DOMAIN transactions))
    /\ discarded' = PendingKeys
    /\ UNCHANGED <<backup_reader, reads>>
    /\ UNCHANGED <<exists, damaged, db, uuids, restore_ids, backup_file, dek_file,
                   snapshot, shadow, given, passphrase, rotation, backup_rotation>>

\* A variant of change_password that returns Ok to a valid request without
\* putting the entry.
ChangePasswordVoid(old_password, new_password, nonce) ==
    /\ open
    /\ UNCHANGED backup_rotation
    /\ password # None
    /\ IsValid(password_policy, new_password)
    /\ DEK_KEY \in DOMAIN db
    /\ CocoonParse(Utf8(old_password), db[DEK_KEY]) # None
    /\ rotation' = Some(<<old_password, new_password>>)
    /\ last' = Result("change_password", "Ok")
    /\ discarded' = {}
    /\ UNCHANGED <<backup_reader, reads>>
    /\ UNCHANGED <<exists, damaged, db, open, password, password_policy, transactions,
                   uuids, restore_ids, backup_file, dek_file, snapshot, issued,
                   ended, shadow, given, passphrase>>

\* A variant of change_password that also takes the new password's bytes as
\* the resident key.
ChangePasswordResident(old_password, new_password, nonce) ==
    /\ open
    /\ UNCHANGED backup_rotation
    /\ password # None
    /\ IsValid(password_policy, new_password)
    /\ DEK_KEY \in DOMAIN db
    /\ CocoonParse(Utf8(old_password), db[DEK_KEY]) # None
    /\ ~Locked(DEK_KEY, 0)
    /\ LET encrypted_dek ==
                CocoonDump(Utf8(new_password), nonce,
                           CocoonParse(Utf8(old_password), db[DEK_KEY])[1]) IN
       /\ db' = EnginePut(db, DEK_KEY, encrypted_dek)
       /\ shadow' = EnginePut(shadow, DEK_KEY, encrypted_dek)
    /\ password' = Some(Utf8(new_password))
    /\ passphrase' = Some(new_password)
    /\ rotation' = Some(<<old_password, new_password>>)
    /\ last' = Result("change_password", "Ok")
    /\ discarded' = {}
    /\ UNCHANGED <<backup_reader, reads>>
    /\ UNCHANGED <<exists, damaged, open, password_policy, transactions, uuids,
                   restore_ids, backup_file, dek_file, snapshot, issued, ended,
                   given>>

\* A variant of change_password that wraps the resident DEK under the new
\* password without unwrapping the stored entry under the old one.
ChangePasswordUnchecked(old_password, new_password, nonce) ==
    /\ open
    /\ UNCHANGED backup_rotation
    /\ discarded' = {}
    /\ UNCHANGED <<backup_reader, reads>>
    /\ UNCHANGED <<exists, damaged, open, password, password_policy, transactions,
                   uuids, restore_ids, backup_file, dek_file, snapshot, issued,
                   ended, given>>
    /\ IF password = None
       THEN /\ last' = Result("change_password", "NoPasswordSet")
            /\ UNCHANGED <<db, shadow, passphrase, rotation, backup_rotation>>
       ELSE IF ~IsValid(password_policy, new_password)
       THEN /\ last' = Result("change_password", "WeakPassword")
            /\ UNCHANGED <<db, shadow, passphrase, rotation, backup_rotation>>
       ELSE LET encrypted_dek ==
                    CocoonDump(Utf8(new_password), nonce, password[1]) IN
            /\ db' = EnginePut(db, DEK_KEY, encrypted_dek)
            /\ shadow' = EnginePut(shadow, DEK_KEY, encrypted_dek)
            /\ passphrase' = Some(new_password)
            /\ rotation' = Some(<<old_password, new_password>>)
            /\ last' = Result("change_password", "Ok")

\* Storage::change_password: the DEK is unwrapped from the stored entry under
\* old_password and wrapped again under new_password with a plain put, which
\* is refused while a transaction holds the lock of the entry.  The resident
\* DEK (field password) is not assigned.
ChangePassword(old_password, new_password, nonce) ==
    LET Fail(res) ==
            /\ last' = Result("change_password", res)
            /\ UNCHANGED <<db, shadow, passphrase, rotation, backup_rotation>>
    IN
    /\ open
    /\ UNCHANGED backup_rotation
    /\ discarded' = {}
    /\ UNCHANGED <<backup_reader, reads>>
    /\ UNCHANGED <<exists, damaged, open, password, password_policy, transactions,
                   uuids, restore_ids, backup_file, dek_file, snapshot, issued,
                   ended, given>>
    /\ IF password = None
       THEN Fail("NoPasswordSet")
       ELSE IF ~IsValid(password_policy, new_password)
       THEN Fail("WeakPassword")
       ELSE IF DEK_KEY \notin DOMAIN db
       THEN Fail("NotFound")
       ELSE LET dek == CocoonParse(Utf8(old_password), db[DEK_KEY]) IN
            IF dek = None
            THEN Fail("WrongPassword")
            ELSE IF Locked(DEK_KEY, 0)
            THEN Fail("WriteError")
            ELSE LET encrypted_dek ==
                         CocoonDump(Utf8(new_password), nonce, dek[1]) IN
                 /\ db' = EnginePut(db, DEK_KEY, encrypted_dek)
                 /\ shadow' = EnginePut(shadow, DEK_KEY, encrypted_dek)
                 /\ passphrase' = Some(new_password)
                 /\ rotation' = Some(<<old_password, new_password>>)
                 /\ last' = Result("change_password", "Ok")

\* A variant of change_backup_password that writes the sidecar before it has
\* unwrapped the old one: the new sidecar wraps the bytes of the old sidecar.
ChangeBackupPasswordBlind(old_password, new_password, nonce) ==
    /\ open
    /\ discarded' = {}
    /\ UNCHANGED <<backup_reader, reads>>
    /\ UNCHANGED <<exists, damaged, db, open, password, password_policy, transactions,
                   uuids, restore_ids, backup_file, snapshot, issued, ended,
                   shadow, given, passphrase, rotation>>
    /\ IF ~IsValid(password_policy, new_password)
       THEN /\ last' = Result("change_backup_password", "WeakPassword")
            /\ UNCHANGED <<dek_file, backup_rotation>>
       ELSE IF dek_file = None
       THEN /\ last' = Result("change_backup_password", "IoError")
            /\ UNCHANGED <<dek_file, backup_rotation>>
       ELSE /\ dek_file' =
                    Some(CocoonDump(Utf8(new_password), nonce, dek_file[1]))
            /\ backup_rotation' = Some(<<old_password, new_password>>)
            /\ last' = Result("change_backup_password", "Ok")

\* Storage::change_backup_password: the sidecar at dek_path is read, unwrapped
\* under old_password, wrapped under new_password and written back.
ChangeBackupPassword(old_password, new_password, nonce) ==
    LET Fail(res) ==
            /\ last' = Result("change_backup_password", res)
            /\ UNCHANGED <<dek_file, backup_rotation>>
    IN
    /\ open
    /\ discarded' = {}
    /\ UNCHANGED <<backup_reader, reads>>
    /\ UNCHANGED <<exists, damaged, db, open, password, password_policy, transactions,
                   uuids, restore_ids, backup_file, snapshot, issued, ended,
                   shadow, given, passphrase, rotation>>
    /\ IF ~IsValid(password_policy, new_password)
       THEN Fail("WeakPassword")
       ELSE IF dek_file = None
       THEN Fail("IoError")
       ELSE LET dek == CocoonParse(Utf8(old_password), dek_file[1]) IN
            IF dek = None
            THEN Fail("WrongPassword")
            ELSE /\ dek_file' =
                        Some(CocoonDump(Utf8(new_password), nonce, dek[1]))
                 /\ backup_rotation' = Some(<<old_password, new_password>>)
                 /\ last' = Result("change_backup_password", "Ok")

\* A byte of the backup file is changed behind the Storage.
AlterBackup ==
    /\ backup_file # None
    /\ ~backup_file[1].altered
    /\ backup_file' = Some([backup_file[1] EXCEPT !.altered = TRUE])
    /\ last' = Result("alter_backup", "Ok")
    /\ UNCHANGED <<exists, damaged, db, open, password, password_policy, transactions,
                   uuids, restore_ids, dek_file, snapshot, issued, ended,
                   shadow, given, passphrase, rotation, backup_rotation,
                   discarded, backup_reader, reads>>

\* Byte i of the sidecar is changed behind the Storage, by delta.
AlterSidecar(i, delta) ==
    /\ dek_file # None
    /\ i \in 1..Len(dek_file[1])
    /\ delta \in 1..255
    /\ dek_file' = Some([dek_file[1] EXCEPT ![i] = (@ + delta) % 256])
    /\ last' = Result("alter_sidecar", "Ok")
    /\ UNCHANGED <<exists, damaged, db, open, password, password_policy, transactions,
                   uuids, restore_ids, backup_file, snapshot, issued, ended,
                   shadow, given, passphrase, rotation, backup_rotation,
                   discarded, backup_reader, reads>>

\* Storage::delete_db_files: drop, then remove the directory.  When the drop
\* faults the directory is not reached and stays as it was.  remove_dir_all
\* removes the entries of the directory one by one and returns at the first
\* that fails, so when the call returns its error the directory is whole
\* (nothing was removed), or holds no database any more (every file of it
\* was removed), or is damaged (some of the files were removed).
DeleteDbFiles ==
    /\ open
    /\ UNCHANGED backup_rotation
    /\ open' = FALSE
    /\ password' = None
    /\ password_policy' = DefaultPolicy
    /\ transactions' = <<>>
    /\ issued' = <<>>
    /\ ended' = ended \cup DOMAIN transactions
    /\ \E res \in DropResults \cup {"IoError"} :
       \E left \in IF res = "Ok" THEN {"nothing"}
                   ELSE IF res = "Fault" THEN {"whole"}
                   ELSE {"whole", "damaged", "nothing"} :
            /\ last' = ResultN("delete_db_files", res,
                               Cardinality(DOMAIN transactions))
            /\ IF left = "nothing"
               THEN /\ exists' = FALSE
                    /\ damaged' = FALSE
                    /\ db' = NoData
                    /\ shadow' = NoData
                    /\ given' = NoData
                    /\ passphrase' = None
                    /\ rotation' = None
               ELSE /\ damaged' = (left = "damaged")
                    /\ UNCHANGED <<exists, db, shadow, given, passphrase,
                                   rotation>>
    /\ discarded' = PendingKeys
    /\ UNCHANGED <<backup_reader, reads>>
    /\ UNCHANGED <<uuids, restore_ids, backup_file, dek_file, snapshot>>

\* Storage::encrypt_data / decrypt_data, the resident DEK being Some(key).
EncryptData(dek, data, nonce) == CocoonDump(dek[1], nonce, data)
DecryptData(dek, data) == CocoonParse(dek[1], data)

\* A variant that hands the value to the engine as it is given.
StoredAsGiven(value, nonce) == value

\* The bytes write and transactional_write hand to the engine.
StoredBytes(value, nonce) ==
    IF password # None THEN EncryptData(password, value, nonce) ELSE value

\* A call as the caller made it, and its effect on committed contents.
Call(key, put, value, nonce) ==
    [key |-> key, put |-> put, value |-> value, nonce |-> nonce]
RECURSIVE Effect(_, _)
Effect(d, calls) ==
    IF calls = <<>> THEN d
    ELSE Effect(IF Head(calls).put
                  THEN EnginePut(d, Head(calls).key,
                                 StoredBytes(Head(calls).value, Head(calls).nonce))
                  ELSE EngineDelete(d, Head(calls).key),
                Tail(calls))

\* A variant of write that drops its transaction without committing it.
WriteUncommitted(key, value, nonce) ==
    /\ open
    /\ last' = Result("write", IF Locked(key, 0) THEN "WriteError" ELSE "Ok")
    /\ discarded' = {}
    /\ UNCHANGED <<backup_reader, reads>>
    /\ UNCHANGED <<exists, damaged, db, open, password, password_policy, transactions,
                   uuids, restore_ids, backup_file, dek_file, snapshot, issued,
                   ended, shadow, given, passphrase, rotation, backup_rotation>>

\* The values given, after the calls of a committed transaction.
RECURSIVE Given(_, _)
Given(g, calls) ==
    IF calls = <<>> THEN g
    ELSE Given(IF Head(calls).put
                 THEN EnginePut(g, Head(calls).key, Head(calls).value)
                 ELSE EngineDelete(g, Head(calls).key),
               Tail(calls))

\* A variant of write that returns Ok with its put still uncommitted.
WritePending(key, value, nonce) ==
    /\ open
    /\ IF Locked(key, 0)
       THEN last' = Result("write", "WriteError")
       ELSE last' = Result("write", "Ok")
    /\ discarded' = {}
    /\ UNCHANGED <<backup_reader, reads>>
    /\ UNCHANGED <<exists, damaged, db, open, password, password_policy, transactions,
                   uuids, restore_ids, backup_file, dek_file, snapshot, issued,
                   ended, shadow, given, passphrase, rotation, backup_rotation>>

\* Storage::write.
Write(key, value, nonce) ==
    /\ open
    /\ IF Locked(key, 0)
       THEN last' = Result("write", "WriteError") /\ UNCHANGED <<db, shadow, given, passphrase, rotation, backup_rotation>>
       ELSE /\ db' = EnginePut(db, key, StoredBytes(value, nonce))
            /\ shadow' = Effect(shadow, <<Call(key, TRUE, value, nonce)>>)
            /\ given' = EnginePut(given, key, value)
            /\ UNCHANGED <<passphrase, rotation, backup_rotation>>
            /\ last' = Result("write", "Ok")
    /\ discarded' = {}
    /\ UNCHANGED <<backup_reader, reads>>
    /\ UNCHANGED <<exists, damaged, open, password, password_policy, transactions, uuids,
                   restore_ids, backup_file, dek_file, snapshot, issued, ended>>

\* Storage::delete.
Delete(key) ==
    /\ open
    /\ IF Locked(key, 0)
       THEN last' = Result("delete", "WriteError") /\ UNCHANGED <<db, shadow, given, passphrase, rotation, backup_rotation>>
       ELSE /\ db' = EngineDelete(db, key)
            /\ shadow' = Effect(shadow, <<Call(key, FALSE, <<>>, 0)>>)
            /\ given' = EngineDelete(given, key)
            /\ UNCHANGED <<passphrase, rotation, backup_rotation>>
            /\ last' = Result("delete", "Ok")
    /\ discarded' = {}
    /\ UNCHANGED <<backup_reader, reads>>
    /\ UNCHANGED <<exists, damaged, open, password, password_policy, transactions, uuids,
                   restore_ids, backup_file, dek_file, snapshot, issued, ended>>

\* The number of operations pending in the registry.
Pending ==
    LET RECURSIVE Sum(_)
        Sum(S) == IF S = {} THEN 0
                  ELSE LET h == CHOOSE x \in S : TRUE IN
                       Len(transactions[h]) + Sum(S \ {h})
    IN Sum(DOMAIN transactions)

\* The map m with handle h bound to x (HashMap::insert).
Inserted(m, h, x) == [g \in (DOMAIN m) \cup {h} |-> IF g = h THEN x ELSE m[g]]
\* The map m without handle h (HashMap::remove).
Removed(m, h) == [g \in (DOMAIN m) \ {h} |-> m[g]]

\* Storage::begin_transaction.
BeginTransaction ==
    /\ open
    /\ uuids < MaxTx
    /\ uuids' = uuids + 1
    /\ transactions' = Inserted(transactions, uuids + 1, <<>>)
    /\ issued' = Inserted(issued, uuids + 1, <<>>)
    /\ last' = Result("begin_transaction", "Ok")
    /\ discarded' = {}
    /\ UNCHANGED <<backup_reader, reads>>
    /\ UNCHANGED <<exists, damaged, db, open, password, password_policy, restore_ids, backup_file, dek_file, snapshot, ended, shadow, given, passphrase, rotation, backup_rotation>>

\* A variant of transactional_write that puts into the engine at once.
TransactionalWriteThrough(key, value, transaction_id, nonce) ==
    /\ open
    /\ Pending < MaxPending
    /\ IF transaction_id \notin DOMAIN transactions
       THEN /\ last' = Result("transactional_write", "NotFound(Transaction)")
            /\ UNCHANGED <<db, transactions, issued>>
       ELSE IF Locked(key, transaction_id)
       THEN /\ last' = Result("transactional_write", "WriteError")
            /\ UNCHANGED <<db, transactions, issued>>
       ELSE /\ db' = EnginePut(db, key, StoredBytes(value, nonce))
            /\ transactions' =
                   [transactions EXCEPT ![transaction_id] =
                       Append(@, PutOp(key, StoredBytes(value, nonce)))]
            /\ issued' = [issued EXCEPT ![transaction_id] =
                            Append(@, Call(key, TRUE, value, nonce))]
            /\ last' = Result("transactional_write", "Ok")
    /\ discarded' = {}
    /\ UNCHANGED <<backup_reader, reads>>
    /\ UNCHANGED <<exists, damaged, open, password, password_policy, uuids,
                   restore_ids, backup_file, dek_file, snapshot, ended, shadow, given, passphrase, rotation, backup_rotation>>

\* Storage::transactional_write.
TransactionalWrite(key, value, transaction_id, nonce) ==
    /\ open
    /\ Pending < MaxPending
    /\ IF transaction_id \notin DOMAIN transactions
       THEN /\ last' = Result("transactional_write", "NotFound(Transaction)")
            /\ UNCHANGED <<transactions, issued>>
       ELSE IF Locked(key, transaction_id)
       THEN /\ last' = Result("transactional_write", "WriteError")
            /\ UNCHANGED <<transactions, issued>>
       ELSE /\ transactions' =
                   [transactions EXCEPT ![transaction_id] =
                       Append(@, PutOp(key, StoredBytes(value, nonce)))]
            /\ issued' = [issued EXCEPT ![transaction_id] =
                            Append(@, Call(key, TRUE, value, nonce))]
            /\ last' = Result("transactional_write", "Ok")
    /\ discarded' = {}
    /\ UNCHANGED <<backup_reader, reads>>
    /\ UNCHANGED <<exists, damaged, db, open, password, password_policy, uuids,
                   restore_ids, backup_file, dek_file, snapshot, ended, shadow, given, passphrase, rotation, backup_rotation>>

\* Storage::transactional_delete.
TransactionalDelete(key, transaction_id) ==
    /\ open
    /\ Pending < MaxPending
    /\ IF transaction_id \notin DOMAIN transactions
       THEN /\ last' = Result("transactional_delete", "NotFound(Transaction)")
            /\ UNCHANGED <<transactions, issued>>
       ELSE IF Locked(key, transaction_id)
       THEN /\ last' = Result("transactional_delete", "WriteError")
            /\ UNCHANGED <<transactions, issued>>
       ELSE /\ transactions' =
                   [transactions EXCEPT ![transaction_id] =
                       Append(@, DeleteOp(key))]
            /\ issued' = [issued EXCEPT ![transaction_id] =
                            Append(@, Call(key, FALSE, <<>>, 0))]
            /\ last' = Result("transactional_delete", "Ok")
    /\ discarded' = {}
    /\ UNCHANGED <<backup_reader, reads>>
    /\ UNCHANGED <<exists, damaged, db, open, password, password_policy, uuids,
                   restore_ids, backup_file, dek_file, snapshot, ended, shadow, given, passphrase, rotation, backup_rotation>>

\* A variant of commit_transaction that leaves the handle in the registry.
CommitKeepsHandle(transaction_id) ==
    /\ open
    /\ IF transaction_id \notin DOMAIN transactions
       THEN /\ last' = Result("commit_transaction", "NotFound(Transaction)")
            /\ UNCHANGED <<db, transactions, issued, ended, shadow, given, passphrase, rotation, backup_rotation>>
       ELSE /\ transactions' = [transactions EXCEPT ![transaction_id] = <<>>]
            /\ db' = ApplyOps(db, transactions[transaction_id])
            /\ issued' = [issued EXCEPT ![transaction_id] = <<>>]
            /\ ended' = ended \cup {transaction_id}
            /\ shadow' = Effect(shadow, issued[transaction_id])
            /\ given' = Given(given, issued[transaction_id])
            /\ UNCHANGED <<passphrase, rotation, backup_rotation>>
            /\ last' = ResultN("commit_transaction", "Ok",
                               Len(transactions[transaction_id]))
    /\ discarded' = {}
    /\ UNCHANGED <<backup_reader, reads>>
    /\ UNCHANGED <<exists, damaged, open, password, password_policy, uuids, restore_ids, backup_file, dek_file, snapshot>>

\* A variant of commit_transaction whose commit applies the operations of the
\* transaction from the last issued to the first.
CommitReversed(transaction_id) ==
    /\ open
    /\ IF transaction_id \notin DOMAIN transactions
       THEN /\ last' = Result("commit_transaction", "NotFound(Transaction)")
            /\ UNCHANGED <<db, transactions, issued, ended, shadow, given, passphrase, rotation, backup_rotation>>
       ELSE /\ transactions' = Removed(transactions, transaction_id)
            /\ db' = ApplyOps(db, [i \in 1..Len(transactions[transaction_id]) |->
                        transactions[transaction_id][
                            Len(transactions[transaction_id]) + 1 - i]])
            /\ issued' = Removed(issued, transaction_id)
            /\ ended' = ended \cup {transaction_id}
            /\ shadow' = Effect(shadow, issued[transaction_id])
            /\ given' = Given(given, issued[transaction_id])
            /\ UNCHANGED <<passphrase, rotation, backup_rotation>>
            /\ last' = ResultN("commit_transaction", "Ok",
                               Len(transactions[transaction_id]))
    /\ discarded' = {}
    /\ UNCHANGED <<backup_reader, reads>>
    /\ UNCHANGED <<exists, damaged, open, password, password_policy, uuids, restore_ids, backup_file, dek_file, snapshot>>

\* Storage::commit_transaction.
CommitTransaction(transaction_id) ==
    /\ open
    /\ IF transaction_id \notin DOMAIN transactions
       THEN /\ last' = Result("commit_transaction", "NotFound(Transaction)")
            /\ UNCHANGED <<db, transactions, issued, ended, shadow, given, passphrase, rotation, backup_rotation>>
       ELSE /\ transactions' = Removed(transactions, transaction_id)
            /\ db' = ApplyOps(db, transactions[transaction_id])
            /\ issued' = Removed(issued, transaction_id)
            /\ ended' = ended \cup {transaction_id}
            /\ shadow' = Effect(shadow, issued[transaction_id])
            /\ given' = Given(given, issued[transaction_id])
            /\ UNCHANGED <<passphrase, rotation, backup_rotation>>
            /\ last' = ResultN("commit_transaction", "Ok",
                               Len(transactions[transaction_id]))
    /\ discarded' = {}
    /\ UNCHANGED <<backup_reader, reads>>
    /\ UNCHANGED <<exists, damaged, open, password, password_policy, uuids, restore_ids, backup_file, dek_file, snapshot>>

\* A variant of rollback_transaction that commits what is pending.
RollbackCommits(transaction_id) ==
    /\ open
    /\ IF transaction_id \notin DOMAIN transactions
       THEN /\ last' = Result("rollback_transaction", "NotFound(Transaction)")
            /\ UNCHANGED <<db, transactions, issued, ended>>
       ELSE /\ transactions' = Removed(transactions, transaction_id)
            /\ db' = ApplyOps(db, transactions[transaction_id])
            /\ issued' = Removed(issued, transaction_id)
            /\ ended' = ended \cup {transaction_id}
            /\ last' = ResultN("rollback_transaction", "Ok",
                               Len(transactions[transaction_id]))
    /\ discarded' = {}
    /\ UNCHANGED <<backup_reader, reads>>
    /\ UNCHANGED <<exists, damaged, open, password, password_policy, uuids,
                   restore_ids, backup_file, dek_file, snapshot, shadow, given, passphrase, rotation, backup_rotation>>

\* A variant of the failing commit that puts the handle back into the
\* registry with its operations.
CommitFaultKeepsHandle(transaction_id) ==
    /\ open
    /\ IF transaction_id \notin DOMAIN transactions
       THEN last' = Result("commit_transaction", "NotFound(Transaction)")
       ELSE last' = ResultN("commit_transaction", "CommitError",
                            Len(transactions[transaction_id]))
    /\ discarded' = {}
    /\ UNCHANGED <<backup_reader, reads>>
    /\ UNCHANGED <<transactions, issued, ended>>
    /\ UNCHANGED <<exists, damaged, db, open, password, password_policy, uuids,
                   restore_ids, backup_file, dek_file, snapshot, shadow, given, passphrase, rotation, backup_rotation>>

\* Storage::commit_transaction when the commit of the engine fails: the
\* transaction was taken out of the registry before tx.commit(), and the
\* engine, whose commit is all or nothing, drops it with its operations.
CommitTransactionFault(transaction_id) ==
    /\ open
    /\ IF transaction_id \notin DOMAIN transactions
       THEN /\ last' = Result("commit_transaction", "NotFound(Transaction)")
            /\ UNCHANGED <<transactions, issued, ended>>
       ELSE /\ transactions' = Removed(transactions, transaction_id)
            /\ issued' = Removed(issued, transaction_id)
            /\ ended' = ended \cup {transaction_id}
            /\ last' = ResultN("commit_transaction", "CommitError",
                               Len(transactions[transaction_id]))
    /\ discarded' = {}
    /\ UNCHANGED <<backup_reader, reads>>
    /\ UNCHANGED <<exists, damaged, db, open, password, password_policy, uuids,
                   restore_ids, backup_file, dek_file, snapshot, shadow, given, passphrase, rotation, backup_rotation>>

\* Storage::rollback_transaction.
RollbackTransaction(transaction_id) ==
    /\ open
    /\ IF transaction_id \notin DOMAIN transactions
       THEN /\ last' = Result("rollback_transaction", "NotFound(Transaction)")
            /\ UNCHANGED <<transactions, issued, ended>>
       ELSE /\ transactions' = Removed(transactions, transaction_id)
            /\ issued' = Removed(issued, transaction_id)
            /\ ended' = ended \cup {transaction_id}
            /\ last' = ResultN("rollback_transaction", "Ok",
                               Len(transactions[transaction_id]))
    /\ discarded' = {}
    /\ UNCHANGED <<backup_reader, reads>>
    /\ UNCHANGED <<exists, damaged, db, open, password, password_policy, uuids,
                   restore_ids, backup_file, dek_file, snapshot, shadow, given, passphrase, rotation, backup_rotation>>

----------------------------------------------------------------------------
(* Reads, as functions of the engine's contents d and the resident DEK     *)
(* (None in plaintext mode).  Each returns <<result, value>>.              *)

\* Storage::read.
Read(d, dek, key) ==
    IF key \notin DOMAIN d THEN <<"Ok", None>>
    ELSE LET plain == IF dek # None THEN DecryptData(dek, d[key])
                                     ELSE Some(d[key]) IN
         IF plain = None THEN <<"FailedToDecryptData", None>>
         ELSE IF ~IsUtf8(plain[1]) THEN <<"ConversionError", None>>
         ELSE <<"Ok", Some(plain[1])>>

\* Storage::has_key.
HasKey(d, key) == <<"Ok", key \in DOMAIN d>>

\* A variant of is_empty that passes over the reserved DEK entry.
IsEmptyOfUserEntries(d) == <<"Ok", IterStart(d) \in {<<>>, <<DEK_KEY>>}>>

\* Storage::is_empty.
IsEmpty(d) == <<"Ok", IterStart(d) = <<>>>>

\* Storage::keys: the loop over the iterator from the start.
RECURSIVE KeysLoop(_, _)
KeysLoop(items, result) ==
    IF items = <<>> THEN <<"Ok", result>>
    ELSE IF ~IsUtf8(Head(items)) THEN <<"ConversionError", <<>>>>
    ELSE KeysLoop(Tail(items), Append(result, Head(items)))

Keys(d) == KeysLoop(IterStart(d), <<>>)

\* Storage::partial_compare_keys: the loop over the iterator from `key`.
RECURSIVE PartialCompareKeysLoop(_, _, _)
PartialCompareKeysLoop(items, key, result) ==
    IF items = <<>> THEN <<"Ok", result>>
    ELSE IF ~IsUtf8(Head(items)) THEN <<"ConversionError", <<>>>>
    ELSE IF StartsWith(Head(items), key)
        THEN PartialCompareKeysLoop(Tail(items), key, Append(result, Head(items)))
    ELSE <<"Ok", result>>

PartialCompareKeys(d, key) ==
    PartialCompareKeysLoop(IterFrom(d, key), key, <<>>)

\* Storage::partial_compare: the value is decrypted and converted before the
\* key is compared with the prefix.
RECURSIVE PartialCompareLoop(_, _, _, _, _)
PartialCompareLoop(d, dek, items, key, result) ==
    IF items = <<>> THEN <<"Ok", result>>
    ELSE LET k == Head(items)
             v == IF dek # None THEN DecryptData(dek, d[k]) ELSE Some(d[k])
         IN
         IF ~IsUtf8(k) THEN <<"ConversionError", <<>>>>
         ELSE IF v = None THEN <<"FailedToDecryptData", <<>>>>
         ELSE IF ~IsUtf8(v[1]) THEN <<"ConversionError", <<>>>>
         ELSE IF StartsWith(k, key)
            THEN PartialCompareLoop(d, dek, Tail(items), key,
                                    Append(result, <<k, v[1]>>))
         ELSE <<"Ok", result>>

PartialCompare(d, dek, key) ==
    PartialCompareLoop(d, dek, IterFrom(d, key), key, <<>>)

\* The reads of the open Storage.
ReadResult(key) == Read(db, password, key)
KeysResult == Keys(db)
PartialCompareKeysResult(key) == PartialCompareKeys(db, key)
PartialCompareResult(key) == PartialCompare(db, password, key)

----------------------------------------------------------------------------
(* KeyValueStore for Storage, with V = String (storage.rs). *)

\* serde_json::to_string of a string: what one byte of it becomes.
JsonEscape(b) ==
    IF b = 34 THEN <<92, 34>>
    ELSE IF b = 92 THEN <<92, 92>>
    ELSE IF b = 8 THEN <<92, 98>>
    ELSE IF b = 9 THEN <<92, 116>>
    ELSE IF b = 10 THEN <<92, 110>>
    ELSE IF b = 12 THEN <<92, 102>>
    ELSE IF b = 13 THEN <<92, 114>>
    ELSE IF b < 32 THEN <<92, 117, 48, 48, HexDigit(b \div 16), HexDigit(b % 16)>>
    ELSE <<b>>

\* serde_json::to_string(&value) for a String value.
ToJson(value) ==
    <<34>> \o Concat([i \in 1..Len(value) |-> JsonEscape(value[i])]) \o <<34>>

IsJsonWs(b) == b \in {32, 9, 10, 13}

RECURSIVE SkipJsonWs(_)
SkipJsonWs(t) == IF t # <<>> /\ IsJsonWs(t[1]) THEN SkipJsonWs(Tail(t)) ELSE t

\* The code unit of four hex digits at t[i..i+3], or -1.
Hex4(t, i) ==
    IF Len(t) < i + 3 \/ \E j \in i..(i + 3) : HexVal(t[j]) < 0 THEN -1
    ELSE 4096 * HexVal(t[i]) + 256 * HexVal(t[i + 1])
            + 16 * HexVal(t[i + 2]) + HexVal(t[i + 3])

\* The characters of a JSON string literal after its opening quote:
\* [ok, out, rest], rest being what follows the closing quote.
RECURSIVE JsonChars(_, _)
JsonChars(t, out) ==
    LET Fail == [ok |-> FALSE, out |-> <<>>, rest |-> <<>>]
        n == Len(t)
    IN
    IF t = <<>> THEN Fail
    ELSE IF t[1] = 34 THEN [ok |-> TRUE, out |-> out, rest |-> Tail(t)]
    ELSE IF t[1] < 32 THEN Fail
    ELSE IF t[1] # 92 THEN JsonChars(Tail(t), Append(out, t[1]))
    ELSE IF n < 2 THEN Fail
    ELSE LET e == t[2] after == SubSeq(t, 3, n) IN
         IF e \in {34, 92, 47} THEN JsonChars(after, Append(out, e))
         ELSE IF e = 98 THEN JsonChars(after, Append(out, 8))
         ELSE IF e = 102 THEN JsonChars(after, Append(out, 12))
         ELSE IF e = 110 THEN JsonChars(after, Append(out, 10))
         ELSE IF e = 114 THEN JsonChars(after, Append(out, 13))
         ELSE IF e = 116 THEN JsonChars(after, Append(out, 9))
         ELSE IF e # 117 THEN Fail
         ELSE LET u == Hex4(t, 3) IN
              IF u < 0 THEN Fail
              ELSE IF u >= 56320 /\ u <= 57343 THEN Fail
              ELSE IF u >= 55296 /\ u <= 56319
                 THEN LET lo == IF n >= 8 /\ t[7] = 92 /\ t[8] = 117
                                THEN Hex4(t, 9) ELSE -1 IN
                      IF lo < 56320 \/ lo > 57343 THEN Fail
                      ELSE JsonChars(SubSeq(t, 13, n),
                                     out \o Utf8(<<65536 + 1024 * (u - 55296)
                                                    + (lo - 56320)>>))
              ELSE JsonChars(SubSeq(t, 7, n), out \o Utf8(<<u>>))

\* serde_json::from_str::<String>(text): Some(value), or None on an error.
FromJson(text) ==
    LET t == SkipJsonWs(text) IN
    IF t = <<>> \/ t[1] # 34 THEN None
    ELSE LET r == JsonChars(Tail(t), <<>>) IN
         IF r.ok /\ SkipJsonWs(r.rest) = <<>> THEN Some(r.out) ELSE None

\* KeyValueStore::get: <<result, value>>.
Get(d, dek, key) ==
    LET value == Read(d, dek, key) IN
    IF value[1] # "Ok" \/ value[2] = None THEN value
    ELSE IF FromJson(value[2][1]) = None THEN <<"ConversionError", None>>
    ELSE <<"Ok", FromJson(value[2][1])>>

GetResult(key) == Get(db, password, key)

\* KeyValueStore::set.  transaction_id is Option of a handle.
Set(key, value, transaction_id, nonce) ==
    IF transaction_id = None
    THEN Write(key, ToJson(value), nonce)
    ELSE TransactionalWrite(key, ToJson(value), transaction_id[1], nonce)

----------------------------------------------------------------------------
(* KeyValueStore for Storage, with V = serde_json::Value (storage.rs).     *)
(* A value is null, a boolean, a number, a string, an array of values or   *)
(* an object, whose members are a function from their names to values.     *)
(* A number is an integer (u64 or i64) or a float, kept as its sign, its   *)
(* decimal digits and, for a float, the place of its decimal point: the    *)
(* float is 0.d1d2.. * 10^exp, its digits without zeros at either end.     *)

Null == [kind |-> "null"]
Bool(b) == [kind |-> "bool", bool |-> b]
String(s) == [kind |-> "string", string |-> s]
Array(items) == [kind |-> "array", items |-> items]
Object(f) == [kind |-> "object", fields |-> f]
Integer(neg, digits) ==
    [kind |-> "number", float |-> FALSE, neg |-> neg, digits |-> digits,
     exp |-> 0]
Float(neg, digits, exp) ==
    [kind |-> "number", float |-> TRUE, neg |-> neg, digits |-> digits,
     exp |-> exp]

\* The decimal digits of a natural number.
RECURSIVE NatDigits(_)
NatDigits(n) ==
    IF n < 10 THEN <<n>> ELSE Append(NatDigits(n \div 10), n % 10)

\* The Value of a natural number.
Number(n) == Integer(FALSE, NatDigits(n))

\* The ASCII of a sequence of digits.
DigitChars(digits) == [i \in 1..Len(digits) |-> 48 + digits[i]]

\* n zeros.
Zeros(n) == [i \in 1..n |-> 0]

\* The exponent of the text of a float: with its sign, plus as well as minus.
ExponentJson(e) ==
    IF e < 0 THEN <<45>> \o DigitChars(NatDigits(0 - e))
    ELSE <<43>> \o DigitChars(NatDigits(e))

\* The text of a finite f64, as serde_json::to_string writes a float.
FloatJson(neg, digits, exp) ==
    LET length == Len(digits)
        k == exp - length
        sign == IF neg THEN <<45>> ELSE <<>>
    IN
    IF digits = <<>> THEN sign \o <<48, 46, 48>>
    ELSE IF 0 <= k /\ exp <= 16
        THEN sign \o DigitChars(digits \o Zeros(k)) \o <<46, 48>>
    ELSE IF 0 < exp /\ exp <= 16
        THEN sign \o DigitChars(SubSeq(digits, 1, exp)) \o <<46>>
                \o DigitChars(SubSeq(digits, exp + 1, length))
    ELSE IF -5 < exp /\ exp <= 0
        THEN sign \o <<48, 46>> \o DigitChars(Zeros(0 - exp) \o digits)
    ELSE IF length = 1
        THEN sign \o DigitChars(digits) \o <<101>> \o ExponentJson(exp - 1)
    ELSE sign \o DigitChars(SubSeq(digits, 1, 1)) \o <<46>>
            \o DigitChars(SubSeq(digits, 2, length))
            \o <<101>> \o ExponentJson(exp - 1)

\* serde_json::to_string of a number.
NumberJson(number) ==
    IF number.float THEN FloatJson(number.neg, number.digits, number.exp)
    ELSE (IF number.neg THEN <<45>> ELSE <<>>) \o DigitChars(number.digits)

\* serde_json::to_string(&value): the members of an object in the order of
\* their names (the Map of serde_json is a BTreeMap).
RECURSIVE ValueToJson(_)
RECURSIVE ItemsJson(_)
RECURSIVE MembersJson(_, _)
ItemsJson(items) ==
    IF items = <<>> THEN <<>>
    ELSE ValueToJson(Head(items))
            \o (IF Len(items) > 1 THEN <<44>> ELSE <<>>)
            \o ItemsJson(Tail(items))

\* serde_json::to_string of the members named in names, in that order.
MembersJson(f, names) ==
    IF names = <<>> THEN <<>>
    ELSE ToJson(Head(names)) \o <<58>> \o ValueToJson(f[Head(names)])
            \o (IF Len(names) > 1 THEN <<44>> ELSE <<>>)
            \o MembersJson(f, Tail(names))

ValueToJson(value) ==
    With(value, LAMBDA v :
        IF v.kind = "null" THEN <<110, 117, 108, 108>>
        ELSE IF v.kind = "bool"
            THEN (IF v.bool THEN <<116, 114, 117, 101>>
                  ELSE <<102, 97, 108, 115, 101>>)
        ELSE IF v.kind = "number" THEN NumberJson(v)
        ELSE IF v.kind = "string" THEN ToJson(v.string)
        ELSE IF v.kind = "array" THEN <<91>> \o ItemsJson(v.items) \o <<93>>
        ELSE <<123>> \o MembersJson(v.fields, SortedKeys(DOMAIN v.fields))
                \o <<125>>)

\* The digits at the head of t: [digits, rest].
JsonDigits(t) ==
    With(t, LAMBDA s :
    With(CHOOSE k \in 0..Len(s) :
            /\ k = Len(s) \/ s[k + 1] \notin DIGITS
            /\ \A i \in 1..k : s[i] \in DIGITS,
         LAMBDA n : [digits |-> <<>> \o [i \in 1..n |-> s[i] - 48],
                     rest |-> SubSeq(s, n + 1, Len(s))]))

\* A sequence of digits without the zeros at its head, and without the
\* zeros at its end.
StripLeft(digits) ==
    With(<<>> \o digits, LAMBDA s :
    With(CHOOSE k \in 0..Len(s) :
            /\ k = Len(s) \/ s[k + 1] # 0
            /\ \A i \in 1..k : s[i] = 0,
         LAMBDA n : SubSeq(s, n + 1, Len(s))))

StripRight(digits) ==
    With(<<>> \o digits, LAMBDA s :
    With(CHOOSE k \in 0..Len(s) :
            /\ k = Len(s) \/ s[Len(s) - k] # 0
            /\ \A i \in 1..k : s[Len(s) + 1 - i] = 0,
         LAMBDA n : SubSeq(s, 1, Len(s) - n)))

\* The natural number of digits that are within i32::MAX.
RECURSIVE DigitsNat(_)
DigitsNat(digits) ==
    IF digits = <<>> THEN 0
    ELSE 10 * DigitsNat(SubSeq(digits, 1, Len(digits) - 1))
            + digits[Len(digits)]

\* Whether the integer of the digits is at most the integer of max.
AtMost(digits, max) ==
    \/ Len(digits) < Len(max)
    \/ Len(digits) = Len(max) /\ BytesLeq(digits, max)

\* u64::MAX and the magnitude of i64::MIN.
U64Max == <<1, 8, 4, 4, 6, 7, 4, 4, 0, 7, 3, 7, 0, 9, 5, 5, 1, 6, 1, 5>>
I64Min == <<9, 2, 2, 3, 3, 7, 2, 0, 3, 6, 8, 5, 4, 7, 7, 5, 8, 0, 8>>

\* i32::MAX, and i32::saturating_add and saturating_sub of a number that is
\* not negative to an i32.
I32Max == 2147483647

saturating_add(starting_exp, exp) ==
    IF starting_exp > 0 /\ exp > I32Max - starting_exp THEN I32Max
    ELSE starting_exp + exp

saturating_sub(starting_exp, exp) ==
    IF starting_exp < 0 /\ exp - 1 > I32Max + starting_exp
    THEN (0 - I32Max) - 1
    ELSE starting_exp - exp

\* Natural numbers of any size, for the arithmetic of f64: the limbs of a
\* number in base 10000, the lowest first, with no zero limb at the top.
BigBase == 10000

BigTrim(a) == StripRight(a)

BigLimb(a, i) == IF i >= 1 /\ i <= Len(a) THEN a[i] ELSE 0

\* The sum of f over the set S.
SumOver(S, f(_)) ==
    BagCardinality([x \in {y \in S : f(y) > 0} |-> f(x)])

\* The number of a sequence of decimal digits, and the decimal digits of a
\* number, the highest first.
BigOfDigits(digits) ==
    With(digits, LAMBDA s :
        LET n == Len(s)
            At(j) == IF j >= 1 THEN s[j] ELSE 0
        IN
        BigTrim([i \in 1..((n + 3) \div 4) |->
                    At(n - 4 * (i - 1)) + 10 * At(n - 4 * (i - 1) - 1)
                        + 100 * At(n - 4 * (i - 1) - 2)
                        + 1000 * At(n - 4 * (i - 1) - 3)]))

BigDigits(a) ==
    With(a, LAMBDA s :
        StripLeft([j \in 1..(4 * Len(s)) |->
                    (s[((4 * Len(s) - j) \div 4) + 1]
                        \div (10 ^ ((4 * Len(s) - j) % 4))) % 10]))

BigLess(a, b) ==
    With(<<a, b>>, LAMBDA x :
        \/ Len(x[1]) < Len(x[2])
        \/ /\ Len(x[1]) = Len(x[2])
           /\ x[1] # x[2]
           /\ With(CHOOSE k \in 1..Len(x[1]) :
                        /\ x[1][k] # x[2][k]
                        /\ \A j \in (k + 1)..Len(x[1]) : x[1][j] = x[2][j],
                   LAMBDA i : x[1][i] < x[2][i]))

BigLeq(a, b) == With(<<a, b>>, LAMBDA x : x[1] = x[2] \/ BigLess(x[1], x[2]))

\* a + b: limb i takes a carry when the nearest limb sum below it that is
\* not the base less one reaches the base.
BigAdd(a, b) ==
    LET Carry(s, i) ==
            With(CHOOSE k \in 1..i :
                    /\ \A x \in 1..(k - 1) : s[i - x] = BigBase - 1
                    /\ k = i \/ s[i - k] # BigBase - 1,
                 LAMBDA j : j < i /\ s[i - j] >= BigBase)
    IN
    With(<<a, b>>, LAMBDA x :
    With([i \in 1..((IF Len(x[1]) < Len(x[2]) THEN Len(x[2])
                     ELSE Len(x[1])) + 1) |->
            BigLimb(x[1], i) + BigLimb(x[2], i)],
         LAMBDA s :
            BigTrim([i \in 1..Len(s) |->
                        (s[i] + (IF Carry(s, i) THEN 1 ELSE 0)) % BigBase])))

\* a - b, for a >= b: limb i gives a borrow when, at the nearest limb
\* below it where a and b differ, the limb of a is under that of b.
BigSub(a, b) ==
    LET Borrow(d, i) ==
            With(CHOOSE k \in 1..i :
                    /\ \A x \in 1..(k - 1) : d[i - x] = 0
                    /\ k = i \/ d[i - k] # 0,
                 LAMBDA j : j < i /\ d[i - j] < 0)
    IN
    With(<<a, b>>, LAMBDA x :
    With([i \in 1..Len(x[1]) |-> x[1][i] - BigLimb(x[2], i)],
         LAMBDA d :
            BigTrim([i \in 1..Len(d) |->
                        (d[i] - (IF Borrow(d, i) THEN 1 ELSE 0) + BigBase)
                            % BigBase])))

\* a * BigBase^k.
BigShift(a, k) ==
    With(a, LAMBDA s : IF s = <<>> THEN <<>> ELSE [i \in 1..k |-> 0] \o s)

\* a * n, for n <= BigBase.
BigMulSmall(a, n) ==
    With(<<a, n>>, LAMBDA x :
        BigAdd(BigTrim([i \in 1..Len(x[1]) |-> (x[1][i] * x[2]) % BigBase]),
               BigTrim(<<0>> \o [i \in 1..Len(x[1]) |->
                                    (x[1][i] * x[2]) \div BigBase])))

\* a * b: the products of the limbs are summed by columns, their low and
\* high halves apart, and the columns added with their carries.
BigMul(a, b) ==
    With(<<a, b>>, LAMBDA x :
        LET n == Len(x[1]) + Len(x[2])
            Low(k) ==
                SumOver(1..Len(x[1]),
                        LAMBDA i : (x[1][i] * BigLimb(x[2], k - i + 1))
                                        % BigBase)
            High(k) ==
                SumOver(1..Len(x[1]),
                        LAMBDA i : (x[1][i] * BigLimb(x[2], k - i + 1))
                                        \div BigBase)
        IN
        IF x[1] = <<>> \/ x[2] = <<>> THEN <<>>
        ELSE With([k \in 1..n |->
                        Low(k) + (IF k > 1 THEN High(k - 1) ELSE 0)],
                  LAMBDA c :
                    BigAdd(BigAdd(BigTrim([k \in 1..n |-> c[k] % BigBase]),
                                  BigTrim(<<0>> \o [k \in 1..n |->
                                            (c[k] \div BigBase) % BigBase])),
                           BigTrim(<<0, 0>> \o [k \in 1..n |->
                                            c[k] \div (BigBase * BigBase)]))))

RECURSIVE BigPow2(_)
BigPow2(n) ==
    IF n < 13 THEN <<2 ^ n>>
    ELSE With(BigPow2(n \div 2), LAMBDA half :
            BigMulSmall(BigMul(half, half), IF n % 2 = 1 THEN 2 ELSE 1))

BigPow10(n) == BigShift(<<10 ^ (n % 4)>>, n \div 4)

\* The g in 0..9999 with g * t <= r < (g + 1) * t, for r below 10000 * t:
\* its decimal digits from the highest, each the one that keeps the
\* multiple of t at or under r.
DivLimb(r, t) ==
    With(<<r, t>>, LAMBDA x :
        LET Digit(base, unit) ==
                CHOOSE g \in 0..9 :
                    /\ BigLeq(BigMulSmall(x[2], base + g * unit), x[1])
                    /\ BigLess(x[1], BigMulSmall(x[2], base + (g + 1) * unit))
        IN
        With(1000 * Digit(0, 1000), LAMBDA g3 :
        With(g3 + 100 * Digit(g3, 100), LAMBDA g2 :
        With(g2 + 10 * Digit(g2, 10), LAMBDA g1 :
            g1 + Digit(g1, 1)))))

\* One limb of a quotient: the g in 0..9999 that r holds t, and what is
\* left of r.
BigDivStep(r, t) ==
    With(DivLimb(r, t), LAMBDA g :
        [g |-> g, r |-> BigSub(r, BigMulSmall(t, g))])

\* The quotient and the remainder of r by d, for a quotient below
\* 10000^(i+1): long division, the limbs of the quotient from the highest,
\* q being the limbs found so far.
RECURSIVE BigDivLimbs(_, _, _, _)
BigDivLimbs(r, d, i, q) ==
    With(BigDivStep(r, BigShift(d, i)), LAMBDA s :
        IF i = 0 THEN [q |-> BigTrim(<<s.g>> \o q), r |-> s.r]
        ELSE BigDivLimbs(s.r, d, i - 1, <<s.g>> \o q))

\* For a quotient below 10^20.
BigDiv(a, d) == With(<<a, d>>, LAMBDA x : BigDivLimbs(x[1], x[2], 4, <<>>))

\* The number of decimal digits and, below 2^67, of bits of a number.
DecimalLength(a) == Len(BigDigits(a))
BitLength(a) ==
    With(a, LAMBDA x :
        CHOOSE b \in 0..67 :
            /\ BigLess(x, BigPow2(b))
            /\ b = 0 \/ BigLeq(BigPow2(b - 1), x))

\* A finite f64 is m * 2^e with m below 2^53 and e at least -1074, m being
\* at least 2^52 unless e is -1074 (a subnormal); inf tells an infinity.
F64Zero == [inf |-> FALSE, m |-> <<>>, e |-> -1074]
F64Inf == [inf |-> TRUE, m |-> <<>>, e |-> 0]

\* The bits of a quotient below the 53 that the m of an f64 takes.
F64Shift(q) == With(BitLength(q), LAMBDA b : IF b > 53 THEN b - 53 ELSE 0)

\* The quotient without its s lowest bits, rounded to the nearest, ties to
\* the even (the rounding of IEEE 754): qr is the quotient and what the
\* division by t left.
F64Nearest(qr, t, s) ==
    With(BigDiv(qr.q, BigPow2(s)), LAMBDA top :
        LET half == IF s = 0 THEN t ELSE BigPow2(s)
            twice == BigMulSmall(IF s = 0 THEN qr.r ELSE top.r, 2)
        IN
        IF \/ BigLess(half, twice)
           \/ /\ twice = half
              /\ (s > 0 /\ qr.r # <<>>) \/ BigLimb(top.q, 1) % 2 = 1
        THEN BigAdd(top.q, <<1>>) ELSE top.q)

\* The f64 that a quotient at the exponent e rounds to, the quotient having
\* 53 bits or more, or e being -1074.
F64Fit(qr, t, e) ==
    With(F64Shift(qr.q), LAMBDA s :
    With(F64Nearest(qr, t, s), LAMBDA m :
        LET carried == m = BigPow2(53) IN
        IF m = <<>> THEN F64Zero
        ELSE IF (IF carried THEN e + s + 1 ELSE e + s) > 971 THEN F64Inf
        ELSE IF carried
            THEN [inf |-> FALSE, m |-> BigPow2(52), e |-> e + s + 1]
        ELSE [inf |-> FALSE, m |-> m, e |-> e + s]))

\* The exponent where the quotient of n by d has from 55 to 62 bits, or
\* -1074 where that is higher, and the quotient there: [e, qr, t].
F64Quotient(n, d) ==
    With((((DecimalLength(n) - DecimalLength(d) - 1) * 3322) \div 1000) - 54,
         LAMBDA guess :
    With([e |-> IF guess < -1074 THEN -1074 ELSE guess,
          a |-> IF guess >= 0 THEN n
                ELSE BigMul(n, BigPow2(IF guess < -1074 THEN 1074
                                       ELSE 0 - guess)),
          t |-> IF guess >= 0 THEN BigMul(d, BigPow2(guess)) ELSE d],
         LAMBDA x : [e |-> x.e, qr |-> BigDiv(x.a, x.t), t |-> x.t]))

\* The f64 nearest to n / d.
F64Round(n, d) ==
    With(<<n, d>>, LAMBDA x :
        IF x[1] = <<>> THEN F64Zero
        ELSE With(F64Quotient(x[1], x[2]), LAMBDA y :
                    F64Fit(y.qr, y.t, y.e)))

\* x * y and x / y of finite f64, y not zero.
F64Mul(x, y) ==
    With(<<x, y>>, LAMBDA f :
        IF f[1].m = <<>> \/ f[2].m = <<>> THEN F64Zero
        ELSE IF f[1].e + f[2].e >= 0
            THEN F64Round(BigMul(BigMul(f[1].m, f[2].m),
                                 BigPow2(f[1].e + f[2].e)), <<1>>)
        ELSE F64Round(BigMul(f[1].m, f[2].m), BigPow2(0 - f[1].e - f[2].e)))

F64Div(x, y) ==
    With(<<x, y>>, LAMBDA f :
        IF f[1].m = <<>> THEN F64Zero
        ELSE IF f[1].e - f[2].e >= 0
            THEN F64Round(BigMul(f[1].m, BigPow2(f[1].e - f[2].e)), f[2].m)
        ELSE F64Round(f[1].m, BigMul(f[2].m, BigPow2(f[2].e - f[1].e))))

\* POW10[k] of serde_json: the f64 of the literal 1e<k>, k in 0..308.
Pow10(k) == F64Round(BigPow10(k), <<1>>)

\* The loop of f64_from_parts: f times, or divided by, ten to the |exponent|,
\* by steps of 1e308 where |exponent| is above 308.
RECURSIVE F64Scaled(_, _)
F64Scaled(f, exponent) ==
    IF exponent >= 0 /\ exponent <= 308 THEN F64Mul(f, Pow10(exponent))
    ELSE IF exponent < 0 /\ exponent >= -308
        THEN F64Div(f, Pow10(0 - exponent))
    ELSE IF f.m = <<>> THEN f
    ELSE IF exponent >= 0 THEN F64Inf
    ELSE With(F64Div(f, Pow10(308)), LAMBDA g :
            F64Scaled(g, exponent + 308))

\* The decimal that the text of a finite f64 above zero holds: the fewest
\* digits that no other f64 is nearer to and, of these, the nearest to the
\* f64: [digits, exp], the decimal being 0.d1d2.. * 10^exp.  The f64 is
\* v / den and the decimals nearer to it than to another f64 lie from
\* low / den to high / den, the ends taken in where m is even; p is the
\* number of digits of the integer part of v / den, c17 the first 17 digits.
F64Shortest(f) ==
    LET narrow == f.m = BigPow2(52) /\ f.e > -1074
        even == f.m[1] % 2 = 0
        Lhs(b, p, c, n) ==
            IF p >= n THEN BigMul(BigMul(c, b.den), BigPow10(p - n))
            ELSE BigMul(c, b.den)
        Rhs(p, x, n) == IF p >= n THEN x ELSE BigMul(x, BigPow10(n - p))
        Inside(s, c) ==
            IF even THEN BigLeq(s.low, c) /\ BigLeq(c, s.high)
            ELSE BigLess(s.low, c) /\ BigLess(c, s.high)
        Nearest(s) ==
            IF Inside(s, s.down) /\ Inside(s, s.up)
            THEN (IF BigLess(BigSub(s.v, s.down), BigSub(s.up, s.v)) THEN s.d
                  ELSE IF BigLess(BigSub(s.up, s.v), BigSub(s.v, s.down))
                      THEN s.u
                  ELSE IF s.d[1] % 2 = 0 THEN s.d ELSE s.u)
            ELSE IF Inside(s, s.down) THEN s.d
            ELSE IF Inside(s, s.up) THEN s.u
            ELSE <<>>
        Pick(b, p, c17, n) ==
            With(BigOfDigits(SubSeq(c17, 1, n)), LAMBDA d :
            With(BigAdd(d, <<1>>), LAMBDA u :
            With([d |-> d, u |-> u,
                  down |-> Lhs(b, p, d, n), up |-> Lhs(b, p, u, n),
                  v |-> Rhs(p, b.v, n), low |-> Rhs(p, b.low, n),
                  high |-> Rhs(p, b.high, n)],
                 LAMBDA s : Nearest(s))))
    IN
    With(IF f.e >= 0 THEN BigPow2(f.e) ELSE <<1>>, LAMBDA scale :
    With(BigMul(BigMulSmall(f.m, 4), scale), LAMBDA v :
    With([v |-> v,
          den |-> IF f.e >= 0 THEN <<4>>
                  ELSE BigMulSmall(BigPow2(0 - f.e), 4),
          high |-> BigAdd(v, BigMulSmall(scale, 2)),
          low |-> BigSub(v, BigMulSmall(scale, IF narrow THEN 1 ELSE 2))],
         LAMBDA b :
    With(DecimalLength(b.v) - DecimalLength(b.den), LAMBDA t :
    With(IF \/ t >= 0 /\ BigLeq(BigMul(b.den, BigPow10(t)), b.v)
            \/ t < 0 /\ BigLeq(b.den, BigMul(b.v, BigPow10(0 - t)))
         THEN t + 1 ELSE t,
         LAMBDA p :
    With(BigDigits(BigDiv(IF p <= 17 THEN BigMul(b.v, BigPow10(17 - p))
                          ELSE b.v,
                          IF p <= 17 THEN b.den
                          ELSE BigMul(b.den, BigPow10(p - 17))).q),
         LAMBDA c17 :
    With([k \in 1..17 |-> Pick(b, p, c17, k)], LAMBDA picks :
    With(CHOOSE k \in 1..17 :
            /\ k = 17 \/ picks[k] # <<>>
            /\ \A j \in 1..(k - 1) : picks[j] = <<>>,
         LAMBDA n :
    With(BigDigits(picks[n]), LAMBDA digits :
        [digits |-> StripRight(digits), exp |-> Len(digits) + p - n])))))))))

\* f64_from_parts: the float of a significand and a decimal exponent, as
\* the Value holds it, or None when it is out of range.
FloatOf(neg, significand, exponent) ==
    With(F64Scaled(F64Round(BigOfDigits(significand), <<1>>), exponent),
         LAMBDA f :
            IF f.inf THEN None
            ELSE IF f.m = <<>> THEN Some(Float(neg, <<>>, 0))
            ELSE With(F64Shortest(f), LAMBDA s :
                        Some(Float(neg, s.digits, s.exp))))

\* The digits that a u64 significand takes from the head of digits: each
\* digit is taken unless the significand would pass u64::MAX, where the
\* taking ends: [significand, taken, rest].  A significand of zero stays
\* zero over the zeros at the head of digits.
TakeDigits(significand, digits) ==
    With(<<significand, digits>>, LAMBDA x :
    With(IF x[1] = <<>> THEN Len(x[2]) - Len(StripLeft(x[2])) ELSE 0,
         LAMBDA zeros :
        LET Taken(k) == x[1] \o SubSeq(x[2], zeros + 1, k) IN
        With(CHOOSE k \in zeros..Len(x[2]) :
                /\ AtMost(Taken(k), U64Max)
                /\ k = Len(x[2]) \/ ~AtMost(Taken(k + 1), U64Max),
             LAMBDA n :
                [significand |-> Taken(n), taken |-> n,
                 rest |-> SubSeq(x[2], n + 1, Len(x[2]))])))

\* The number at the head of t (parse_integer, parse_long_integer,
\* parse_number, parse_decimal, parse_decimal_overflow, parse_exponent and
\* parse_exponent_overflow of serde_json): [ok, value, rest].  The digits
\* of the integer part that the significand does not take raise the
\* exponent, those of the fraction that it does not take are left out.  The
\* digits after the e are an i32: where they pass i32::MAX the number is out
\* of range, or zero when the significand is zero or the sign is a minus;
\* otherwise they are added to, or taken from, the exponent the digits
\* before them gave, the result staying at the ends of i32.
JsonNumber(t) ==
    LET Fail == [ok |-> FALSE, value |-> Null, rest |-> <<>>]
        neg == t # <<>> /\ t[1] = 45
        Fraction(int) ==
            IF int.rest # <<>> /\ int.rest[1] = 46
            THEN JsonDigits(Tail(int.rest))
            ELSE [digits |-> <<>>, rest |-> int.rest]
        Exponent(frac) ==
            IF frac.rest # <<>> /\ frac.rest[1] \in {101, 69}
            THEN JsonDigits(SubSeq(frac.rest,
                                   IF Len(frac.rest) > 1
                                        /\ frac.rest[2] \in {43, 45}
                                   THEN 3 ELSE 2,
                                   Len(frac.rest)))
            ELSE [digits |-> <<>>, rest |-> frac.rest]
        Parts ==
            With(JsonDigits(IF neg THEN Tail(t) ELSE t), LAMBDA int :
            With(Fraction(int), LAMBDA frac :
                [int |-> int, frac |-> frac, power |-> Exponent(frac),
                 whole |-> TakeDigits(<<>>, int.digits)]))
    IN
    With(Parts, LAMBDA p :
        LET int == p.int
            frac == p.frac
            power == p.power
            whole == p.whole
            dot == int.rest # <<>> /\ int.rest[1] = 46
            e == frac.rest # <<>> /\ frac.rest[1] \in {101, 69}
            minus == e /\ Len(frac.rest) > 1 /\ frac.rest[2] = 45
            magnitude == StripLeft(power.digits)
            part == TakeDigits(whole.significand, frac.digits)
        IN
        IF int.digits = <<>> THEN Fail
        ELSE IF int.digits[1] = 0 /\ Len(int.digits) > 1 THEN Fail
        ELSE IF dot /\ frac.digits = <<>> THEN Fail
        ELSE IF e /\ power.digits = <<>> THEN Fail
        ELSE With(IF ~dot /\ ~e /\ ~neg /\ AtMost(int.digits, U64Max)
                      THEN Some(Integer(FALSE, int.digits))
                  ELSE IF ~dot /\ ~e /\ neg /\ int.digits # <<0>>
                          /\ AtMost(int.digits, I64Min)
                      THEN Some(Integer(TRUE, int.digits))
                  ELSE IF ~AtMost(magnitude, NatDigits(I32Max))
                      THEN (IF part.significand # <<>> /\ ~minus THEN None
                            ELSE Some(Float(neg, <<>>, 0)))
                  ELSE FloatOf(neg, part.significand,
                               IF minus
                               THEN saturating_sub(Len(whole.rest) - part.taken,
                                                   DigitsNat(magnitude))
                               ELSE saturating_add(Len(whole.rest) - part.taken,
                                                   DigitsNat(magnitude))),
                  LAMBDA number :
                    IF number = None THEN Fail
                    ELSE [ok |-> TRUE, value |-> number[1],
                          rest |-> power.rest]))

\* The recursion limit of the Deserializer of serde_json.
RecursionLimit == 128

\* The value at the head of text (Deserializer::deserialize_any of
\* serde_json for a Value): [ok, value, rest].  remaining_depth is what is
\* left of the recursion limit; an array or an object takes one of it and
\* fails when nothing is left.  JsonElements reads the elements of an array
\* after its opening bracket, JsonMembers the members of an object after
\* its opening brace, where a name met again replaces the member met
\* before.
RECURSIVE JsonValue(_, _)
RECURSIVE JsonElements(_, _, _, _)
RECURSIVE JsonMembers(_, _, _, _)
JsonValue(text, remaining_depth) ==
    LET Fail == [ok |-> FALSE, value |-> Null, rest |-> <<>>] IN
    With(SkipJsonWs(text), LAMBDA t :
        LET Ident(word, value) ==
                IF StartsWith(t, word)
                THEN [ok |-> TRUE, value |-> value,
                      rest |-> SubSeq(t, Len(word) + 1, Len(t))]
                ELSE Fail
        IN
        IF t = <<>> THEN Fail
        ELSE IF t[1] = 110 THEN Ident(<<110, 117, 108, 108>>, Null)
        ELSE IF t[1] = 116 THEN Ident(<<116, 114, 117, 101>>, Bool(TRUE))
        ELSE IF t[1] = 102
            THEN Ident(<<102, 97, 108, 115, 101>>, Bool(FALSE))
        ELSE IF t[1] = 45 \/ t[1] \in DIGITS THEN JsonNumber(t)
        ELSE IF t[1] = 34
            THEN With(JsonChars(Tail(t), <<>>), LAMBDA r :
                    IF r.ok
                    THEN [ok |-> TRUE, value |-> String(r.out),
                          rest |-> r.rest]
                    ELSE Fail)
        ELSE IF t[1] = 91
            THEN IF remaining_depth - 1 = 0 THEN Fail
                 ELSE With(JsonElements(Tail(t), <<>>, TRUE,
                                        remaining_depth - 1),
                           LAMBDA r :
                             IF r.ok
                             THEN [ok |-> TRUE, value |-> Array(r.items),
                                   rest |-> r.rest]
                             ELSE Fail)
        ELSE IF t[1] = 123
            THEN IF remaining_depth - 1 = 0 THEN Fail
                 ELSE With(JsonMembers(Tail(t), <<>>, TRUE,
                                       remaining_depth - 1),
                           LAMBDA r :
                             IF r.ok
                             THEN [ok |-> TRUE, value |-> Object(r.fields),
                                   rest |-> r.rest]
                             ELSE Fail)
        ELSE Fail)

JsonElements(text, items, first, remaining_depth) ==
    LET Fail == [ok |-> FALSE, items |-> <<>>, rest |-> <<>>] IN
    With(SkipJsonWs(text), LAMBDA t :
        IF t = <<>> THEN Fail
        ELSE IF t[1] = 93
            THEN (IF first
                  THEN [ok |-> TRUE, items |-> items, rest |-> Tail(t)]
                  ELSE Fail)
        ELSE With(JsonValue(t, remaining_depth), LAMBDA element :
                IF ~element.ok THEN Fail
                ELSE With(<<SkipJsonWs(element.rest),
                            Append(items, element.value)>>,
                          LAMBDA x :
                            IF x[1] = <<>> THEN Fail
                            ELSE IF x[1][1] = 93
                                THEN [ok |-> TRUE, items |-> x[2],
                                      rest |-> Tail(x[1])]
                            ELSE IF x[1][1] = 44
                                THEN JsonElements(Tail(x[1]), x[2], FALSE,
                                                  remaining_depth)
                            ELSE Fail)))

JsonMembers(text, f, first, remaining_depth) ==
    LET Fail == [ok |-> FALSE, fields |-> <<>>, rest |-> <<>>] IN
    With(SkipJsonWs(text), LAMBDA t :
        IF t = <<>> THEN Fail
        ELSE IF first /\ t[1] = 125
            THEN [ok |-> TRUE, fields |-> f, rest |-> Tail(t)]
        ELSE IF t[1] # 34 THEN Fail
        ELSE With(JsonChars(Tail(t), <<>>), LAMBDA name :
            IF ~name.ok THEN Fail
            ELSE With(SkipJsonWs(name.rest), LAMBDA t2 :
                IF t2 = <<>> \/ t2[1] # 58 THEN Fail
                ELSE With(JsonValue(Tail(t2), remaining_depth),
                          LAMBDA member :
                    IF ~member.ok THEN Fail
                    ELSE With(<<[k \in (DOMAIN f) \cup {name.out} |->
                                    IF k = name.out THEN member.value
                                    ELSE f[k]],
                                SkipJsonWs(member.rest)>>,
                              LAMBDA x :
                        IF x[2] = <<>> THEN Fail
                        ELSE IF x[2][1] = 125
                            THEN [ok |-> TRUE, fields |-> x[1],
                                  rest |-> Tail(x[2])]
                        ELSE IF x[2][1] = 44
                            THEN JsonMembers(Tail(x[2]), x[1], FALSE,
                                             remaining_depth)
                        ELSE Fail)))))

\* serde_json::from_str::<Value>(text): Some(value), or None on an error;
\* only whitespace may follow the value.
ValueFromJson(text) ==
    With(JsonValue(text, RecursionLimit), LAMBDA r :
        IF r.ok /\ SkipJsonWs(r.rest) = <<>> THEN Some(r.value) ELSE None)

\* KeyValueStore::get::<Value>: <<result, value>>.
GetValue(d, dek, key) ==
    With(Read(d, dek, key), LAMBDA value :
        IF value[1] # "Ok" \/ value[2] = None THEN value
        ELSE With(ValueFromJson(value[2][1]), LAMBDA parsed :
                IF parsed = None THEN <<"ConversionError", None>>
                ELSE <<"Ok", parsed>>))

\* KeyValueStore::set::<Value>.
SetValue(key, value, transaction_id, nonce) ==
    IF transaction_id = None
    THEN Write(key, ValueToJson(value), nonce)
    ELSE TransactionalWrite(key, ValueToJson(value), transaction_id[1], nonce)

\* A variant of the patch that keeps the patched members only.
PatchedOnly(f, updates) == updates

\* The members of an object after json_object.insert of every update.
Patched(f, updates) ==
    [k \in (DOMAIN f) \cup (DOMAIN updates) |->
        IF k \in DOMAIN updates THEN updates[k] ELSE f[k]]

\* An update as the caller made it and what it returned: the error, or Ok
\* and the value.
Updated(id, updates, transaction_id, res, value) ==
    [op |-> "update", res |-> res, n |-> 0,
     call |-> <<id, updates, transaction_id>>, value |-> value]

\* KeyValueStore::update::<Value>.  The value is fetched with get, that is
\* with read, from the committed contents; patched; and saved with set.
Update(id, updates, transaction_id, nonce) ==
    LET Fail(res) ==
            /\ last' = Updated(id, updates, transaction_id, res, None)
            /\ UNCHANGED <<db, shadow, given, transactions, issued>>
    IN
    /\ open
    /\ discarded' = {}
    /\ UNCHANGED <<backup_reader, reads>>
    /\ UNCHANGED <<exists, damaged, open, password, password_policy, uuids,
                   restore_ids, backup_file, dek_file, snapshot, ended,
                   passphrase, rotation, backup_rotation>>
    /\ \E value \in {GetValue(db, password, id)} :
         IF value[1] # "Ok" THEN Fail(value[1])
         ELSE IF value[2] = None THEN Fail("NotFound(Value)")
         ELSE IF value[2][1].kind # "object"
            THEN Fail("SerializationError")
         ELSE \E updated_value \in
                    {Object(Patched(value[2][1].fields, updates))} :
              \E text \in {ValueToJson(updated_value)} :
              IF transaction_id = None
              THEN IF Locked(id, 0) THEN Fail("WriteError")
                   ELSE /\ db' = EnginePut(db, id, StoredBytes(text, nonce))
                        /\ shadow' = Effect(shadow,
                                            <<Call(id, TRUE, text, nonce)>>)
                        /\ given' = EnginePut(given, id, text)
                        /\ last' = Updated(id, updates, transaction_id, "Ok",
                                           Some(updated_value))
                        /\ UNCHANGED <<transactions, issued>>
              ELSE /\ Pending < MaxPending
                   /\ IF transaction_id[1] \notin DOMAIN transactions
                      THEN Fail("NotFound(Transaction)")
                      ELSE IF Locked(id, transaction_id[1])
                      THEN Fail("WriteError")
                      ELSE /\ transactions' =
                                  [transactions EXCEPT ![transaction_id[1]] =
                                      Append(@, PutOp(id,
                                                      StoredBytes(text, nonce)))]
                           /\ issued' =
                                  [issued EXCEPT ![transaction_id[1]] =
                                      Append(@, Call(id, TRUE, text, nonce))]
                           /\ last' = Updated(id, updates, transaction_id,
                                              "Ok", Some(updated_value))
                           /\ UNCHANGED <<db, shadow, given>>

----------------------------------------------------------------------------
(* Backup and restore (storage.rs, backup_io.rs). *)

\* A variant that formats the bytes of every entry as they are.
RECURSIVE SerializeRaw(_)
SerializeRaw(data_vec) ==
    IF data_vec = <<>> THEN <<>>
    ELSE Head(data_vec)[1] \o <<44>> \o Head(data_vec)[2]
            \o <<59>> \o SerializeRaw(Tail(data_vec))

\* format!("{},{};", hex(key), hex(value)) of every entry of a batch.
RECURSIVE Serialize(_)
Serialize(data_vec) ==
    IF data_vec = <<>> THEN <<>>
    ELSE HexEncode(Head(data_vec)[1]) \o <<44>> \o HexEncode(Head(data_vec)[2])
            \o <<59>> \o Serialize(Tail(data_vec))

\* A variant of the loop without the write of what is left after the last
\* full batch.
RECURSIVE BackupLoopFullBatches(_, _, _, _)
BackupLoopFullBatches(items, data_vec, item_counter, written) ==
    IF items = <<>>
    THEN written
    ELSE LET pushed == Append(data_vec, Head(items)) IN
         IF item_counter = FlushAt
         THEN BackupLoopFullBatches(Tail(items), <<>>, 0,
                                    Append(written, Serialize(pushed)))
         ELSE BackupLoopFullBatches(Tail(items), pushed, item_counter + 1,
                                    written)

\* backup's loop over the snapshot's entries and its final write: the
\* sequence of byte strings handed to write_all.
RECURSIVE BackupLoop(_, _, _, _)
BackupLoop(items, data_vec, item_counter, written) ==
    IF items = <<>>
    THEN IF data_vec # <<>> THEN Append(written, Serialize(data_vec)) ELSE written
    ELSE LET pushed == Append(data_vec, Head(items)) IN
         IF item_counter = FlushAt
         THEN BackupLoop(Tail(items), <<>>, 0, Append(written, Serialize(pushed)))
         ELSE BackupLoop(Tail(items), pushed, item_counter + 1, written)

\* The entries of d as the snapshot iterator yields them.
Entries(d) == LET ks == IterStart(d) IN [i \in 1..Len(ks) |-> <<ks[i], d[ks[i]]>>]

\* BackupFileWriter: the stream sealed under the passphrase hex(dek).  altered
\* tells whether a byte of the file was changed after it was written.
AgeEncrypt(dek, plaintext) ==
    [passphrase |-> HexEncode(dek), plain |-> plaintext, altered |-> FALSE]

\* BackupFileReader::new and the reads of the stream: Some(plaintext) when the
\* passphrase hex(dek) opens the file, None otherwise.  A file with a byte
\* changed does not open, or its first read fails: every stream of the
\* model is shorter than one chunk of 64 KiB.
AgeDecrypt(dek, file) ==
    IF file.passphrase = HexEncode(dek) /\ ~file.altered
    THEN Some(file.plain) ELSE None

\* A variant of backup that does not check the password against the policy.
BackupAnyPassword(backup_password, dek, nonce) ==
    /\ open
    /\ snapshot' = db
    /\ backup_rotation' = None
    /\ dek_file' = Some(CocoonDump(Utf8(backup_password), nonce, dek))
    /\ backup_file' =
         Some(AgeEncrypt(dek, Concat(BackupLoop(Entries(db), <<>>, 0, <<>>))))
    /\ last' = Result("backup", "Ok")
    /\ discarded' = {}
    /\ UNCHANGED <<backup_reader, reads>>
    /\ UNCHANGED <<exists, damaged, db, open, password, password_policy, transactions,
                   uuids, restore_ids, issued, ended, shadow, given,
                   passphrase, rotation>>

\* A variant of backup that iterates over the committed entries overlaid with
\* the operations pending on the transactions of the registry.
BackupPending(backup_password, dek, nonce) ==
    /\ open
    /\ IF ~IsValid(password_policy, backup_password)
       THEN /\ last' = Result("backup", "WeakPassword")
            /\ UNCHANGED <<backup_file, dek_file, snapshot, backup_rotation>>
       ELSE /\ snapshot' = db
            /\ backup_rotation' = None
            /\ dek_file' = Some(CocoonDump(Utf8(backup_password), nonce, dek))
            /\ backup_file' =
                 Some(AgeEncrypt(dek, Concat(BackupLoop(
                    Entries(ApplyOps(db, Concat([h \in 1..uuids |->
                                IF h \in DOMAIN transactions
                                THEN transactions[h] ELSE <<>>]))),
                    <<>>, 0, <<>>))))
            /\ last' = Result("backup", "Ok")
    /\ discarded' = {}
    /\ UNCHANGED <<backup_reader, reads>>
    /\ UNCHANGED <<exists, damaged, db, open, password, password_policy, transactions,
                   uuids, restore_ids, issued, ended, shadow, given, passphrase, rotation>>

\* Storage::backup.  backup_password is the password's characters; dek and
\* nonce are what the random generators yield.
Backup(backup_password, dek, nonce) ==
    /\ open
    /\ IF ~IsValid(password_policy, backup_password)
       THEN /\ last' = Result("backup", "WeakPassword")
            /\ UNCHANGED <<backup_file, dek_file, snapshot, backup_rotation>>
       ELSE /\ snapshot' = db
            /\ backup_rotation' = None
            /\ dek_file' = Some(CocoonDump(Utf8(backup_password), nonce, dek))
            /\ backup_file' =
                 Some(AgeEncrypt(dek, Concat(BackupLoop(Entries(db), <<>>, 0, <<>>))))
            /\ last' = Result("backup", "Ok")
    /\ discarded' = {}
    /\ UNCHANGED <<backup_reader, reads>>
    /\ UNCHANGED <<exists, damaged, db, open, password, password_policy, transactions,
                   uuids, restore_ids, issued, ended, shadow, given, passphrase, rotation>>

\* What `while let Some(Ok(..)) = iter.next()` takes from an iterator whose
\* item number `fault` is an Err: the items before it.  The pattern does not
\* match the Err and the loop ends as it does at the end of the iteration.
Taken(items, fault) ==
    IF fault \in 1..Len(items) THEN SubSeq(items, 1, fault - 1) ELSE items

\* What an iterating call returned when the iterator reported an error at
\* item `fault`.
Iterated(op, fault, res, value) ==
    [op |-> op, res |-> res, n |-> 0, fault |-> fault, value |-> value]

\* Storage::keys when the iterator reports an error at item `fault`.
KeysFault(fault) ==
    LET items == IterStart(db)
        r == KeysLoop(Taken(items, fault), <<>>)
    IN
    /\ open
    /\ fault \in 1..Len(items)
    /\ r[1] = "Ok" /\ Len(r[2]) = fault - 1
    /\ last' = Iterated("keys", fault, r[1], r[2])
    /\ discarded' = {}
    /\ UNCHANGED <<backup_reader, reads>>
    /\ UNCHANGED <<exists, damaged, db, open, password, password_policy, transactions,
                   uuids, restore_ids, backup_file, dek_file, snapshot, issued,
                   ended, shadow, given, passphrase, rotation, backup_rotation>>

\* Storage::partial_compare_keys when the iterator reports an error at item
\* `fault`, the items before it having the prefix.
PartialCompareKeysFault(key, fault) ==
    LET items == IterFrom(db, key)
        r == PartialCompareKeysLoop(Taken(items, fault), key, <<>>)
    IN
    /\ open
    /\ fault \in 1..Len(items)
    /\ r[1] = "Ok" /\ Len(r[2]) = fault - 1
    /\ last' = Iterated("partial_compare_keys", fault, r[1], r[2])
    /\ discarded' = {}
    /\ UNCHANGED <<backup_reader, reads>>
    /\ UNCHANGED <<exists, damaged, db, open, password, password_policy, transactions,
                   uuids, restore_ids, backup_file, dek_file, snapshot, issued,
                   ended, shadow, given, passphrase, rotation, backup_rotation>>

\* Storage::partial_compare when the iterator reports an error at item
\* `fault`, the items before it having the prefix.
PartialCompareFault(key, fault) ==
    LET items == IterFrom(db, key)
        r == PartialCompareLoop(db, password, Taken(items, fault), key, <<>>)
    IN
    /\ open
    /\ fault \in 1..Len(items)
    /\ r[1] = "Ok" /\ Len(r[2]) = fault - 1
    /\ last' = Iterated("partial_compare", fault, r[1], r[2])
    /\ discarded' = {}
    /\ UNCHANGED <<backup_reader, reads>>
    /\ UNCHANGED <<exists, damaged, db, open, password, password_policy, transactions,
                   uuids, restore_ids, backup_file, dek_file, snapshot, issued,
                   ended, shadow, given, passphrase, rotation, backup_rotation>>

\* Storage::backup when the iterator of the snapshot reports an error at item
\* `fault`.
BackupFault(backup_password, dek, nonce, fault) ==
    /\ open
    /\ fault \in 1..Len(Entries(db))
    /\ IsValid(password_policy, backup_password)
    /\ snapshot' = db
    /\ backup_rotation' = None
    /\ dek_file' = Some(CocoonDump(Utf8(backup_password), nonce, dek))
    /\ backup_file' =
         Some(AgeEncrypt(dek, Concat(BackupLoop(Taken(Entries(db), fault),
                                                <<>>, 0, <<>>))))
    /\ last' = Iterated("backup", fault, "Ok", <<>>)
    /\ discarded' = {}
    /\ UNCHANGED <<backup_reader, reads>>
    /\ UNCHANGED <<exists, damaged, db, open, password, password_policy, transactions,
                   uuids, restore_ids, issued, ended, shadow, given, passphrase,
                   rotation>>

\* BufRead::read_until(b';') called until it returns 0: the stream cut after
\* every ';', the rest (if any) last.
RECURSIVE ReadUntil(_, _)
ReadUntil(stream, buf) ==
    IF stream = <<>> THEN (IF buf = <<>> THEN <<>> ELSE <<buf>>)
    ELSE IF Head(stream) = 59
        THEN <<Append(buf, 59)>> \o ReadUntil(Tail(stream), <<>>)
    ELSE ReadUntil(Tail(stream), Append(buf, Head(stream)))

\* Index of the first ',' of buf, or 0.
FirstComma(buf) ==
    IF \E i \in 1..Len(buf) : buf[i] = 44
    THEN CHOOSE i \in 1..Len(buf) : buf[i] = 44 /\ \A j \in 1..(i - 1) : buf[j] # 44
    ELSE 0

\* restore_backup's loop over the records: [res, ops], the result and the
\* puts made in the restore transaction.  A record without ',' is passed over.
RECURSIVE RestoreLoop(_, _)
RestoreLoop(records, ops) ==
    IF records = <<>> THEN [res |-> "Ok", ops |-> ops]
    ELSE LET buf == SubSeq(Head(records), 1, Len(Head(records)) - 1)
             c == FirstComma(buf)
             key == SubSeq(buf, 1, c - 1)
             value == SubSeq(buf, c + 1, Len(buf))
         IN
         IF c = 0 THEN RestoreLoop(Tail(records), ops)
         ELSE IF ~IsUtf8(key) \/ ~IsUtf8(value) \/ ~HexOk(key) \/ ~HexOk(value)
            THEN [res |-> "ConversionError", ops |-> ops]
         ELSE IF Locked(HexDecode(key), 0)
            THEN [res |-> "WriteError", ops |-> ops]
         ELSE RestoreLoop(Tail(records),
                          Append(ops, PutOp(HexDecode(key), HexDecode(value))))

\* A variant of restore_backup that puts every record into the engine as it
\* reads it.
RestorePutsAtOnce(backup_password) ==
    LET id == uuids + 1
        Returned(res, ops) ==
            /\ uuids' = id
            /\ transactions' = Inserted(transactions, id, ops)
            /\ restore_ids' = restore_ids \cup {id}
            /\ last' = ResultN("restore_backup", res, Len(ops))
            /\ db' = ApplyOps(db, ops)
            /\ UNCHANGED <<shadow, given, passphrase, rotation, backup_rotation, ended>>
    IN
    /\ open
    /\ discarded' = {}
    /\ UNCHANGED <<backup_reader, reads>>
    /\ UNCHANGED <<exists, damaged, open, password, password_policy, backup_file,
                   dek_file, snapshot, issued>>
    /\ IF backup_file = None \/ dek_file = None
       THEN /\ last' = Result("restore_backup", "IoError")
            /\ UNCHANGED <<db, transactions, uuids, restore_ids, ended, shadow, given, passphrase, rotation, backup_rotation>>
       ELSE /\ uuids < MaxTx
            /\ LET dek == CocoonParse(Utf8(backup_password), dek_file[1]) IN
               IF dek = None THEN Returned("WrongPassword", <<>>)
               ELSE LET plain == AgeDecrypt(dek[1], backup_file[1]) IN
                    IF plain = None THEN Returned("IoError", <<>>)
                    ELSE LET r == RestoreLoop(ReadUntil(plain[1], <<>>), <<>>) IN
                         IF r.res # "Ok" THEN Returned(r.res, r.ops)
                         ELSE /\ uuids' = id
                              /\ db' = ApplyOps(db, r.ops)
                              /\ shadow' = ApplyOps(shadow, r.ops)
                              /\ UNCHANGED <<given, passphrase, rotation, backup_rotation>>
                              /\ ended' = ended \cup {id}
                              /\ last' = ResultN("restore_backup", "Ok",
                                                 Len(r.ops))
                              /\ restore_ids' = restore_ids \cup {id}
                              /\ UNCHANGED transactions

\* A backup file and its sidecar made outside backup with BackupFileWriter
\* and Cocoon: the stream is whatever bytes were written to the writer.
ForeignBackup(backup_password, dek, nonce, stream) ==
    /\ dek_file' = Some(CocoonDump(Utf8(backup_password), nonce, dek))
    /\ backup_file' = Some(AgeEncrypt(dek, stream))
    /\ backup_rotation' = None
    /\ last' = Result("foreign_backup", "Ok")
    /\ UNCHANGED <<exists, damaged, db, open, password, password_policy, transactions,
                   uuids, restore_ids, issued, ended, shadow, given,
                   passphrase, rotation, snapshot, discarded, backup_reader, reads>>

\* Storage::restore_backup.  An error inside the block returns from the
\* function at once: the statements after the block are not reached.
RestoreBackup(backup_password) ==
    LET id == uuids + 1
        Returned(res, ops) ==
            /\ uuids' = id
            /\ transactions' = Inserted(transactions, id, ops)
            /\ restore_ids' = restore_ids \cup {id}
            /\ last' = ResultN("restore_backup", res, Len(ops))
            /\ UNCHANGED <<db, shadow, given, passphrase, rotation, backup_rotation, ended>>
    IN
    /\ open
    /\ discarded' = {}
    /\ UNCHANGED <<backup_reader, reads>>
    /\ UNCHANGED <<exists, damaged, open, password, password_policy, backup_file,
                   dek_file, snapshot, issued>>
    /\ IF backup_file = None \/ dek_file = None
       THEN /\ last' = Result("restore_backup", "IoError")
            /\ UNCHANGED <<db, transactions, uuids, restore_ids, ended, shadow, given, passphrase, rotation, backup_rotation>>
       ELSE /\ uuids < MaxTx
            /\ LET dek == CocoonParse(Utf8(backup_password), dek_file[1]) IN
               IF dek = None THEN Returned("WrongPassword", <<>>)
               ELSE LET plain == AgeDecrypt(dek[1], backup_file[1]) IN
                    IF plain = None THEN Returned("IoError", <<>>)
                    ELSE LET r == RestoreLoop(ReadUntil(plain[1], <<>>), <<>>) IN
                         IF r.res # "Ok" THEN Returned(r.res, r.ops)
                         ELSE /\ uuids' = id
                              /\ db' = ApplyOps(db, r.ops)
                              /\ shadow' = ApplyOps(shadow, r.ops)
                              /\ UNCHANGED <<given, passphrase, rotation, backup_rotation>>
                              /\ ended' = ended \cup {id}
                              /\ last' = ResultN("restore_backup", "Ok",
                                                 Len(r.ops))
                              /\ restore_ids' = restore_ids \cup {id}
                              /\ UNCHANGED transactions

----------------------------------------------------------------------------
(* The callers' inputs. *)

\* Keys "C" and "E", one on each side of the reserved key "DEK".
UserKeys == {<<67>>, <<69>>}
\* Values "x" and "y".
UserValues == {<<120>>, <<121>>}
\* Passwords "p" and "q", which pass the tests' policy, and "", which fails it.
Passwords == {<<112>>, <<113>>, <<>>}
\* What the random generators may yield: the 32 bytes of a DEK, shortened to
\* one byte, and a nonce.
Deks == {<<201>>, <<202>>}
Nonces == {1}
\* Prefixes "", "C", "D", "DE", "DEK", "E".
Prefixes == {<<>>, <<67>>, <<68>>, <<68, 69>>, DEK_KEY, <<69>>}

\* The handles a caller can name: those begin_transaction returned to it, and
\* any identifier that names no transaction.  The identifier of a transaction
\* restore_backup began was never given to the caller.
CallerHandles == Handles \ restore_ids

----------------------------------------------------------------------------
(* What the read operations return at one key. *)

InSeq(s, x) == \E i \in 1..Len(s) : s[i] = x

\* What read and has_key return about key k, whether keys and
\* partial_compare_keys list it, and what partial_compare returns for it, on
\* contents d under the DEK dek.
ObservationAt(d, dek, k) ==
    [read |-> Read(d, dek, k),
     has_key |-> HasKey(d, k),
     keys |-> InSeq(Keys(d)[2], k),
     partial_compare_keys |-> InSeq(PartialCompareKeys(d, k)[2], k),
     partial_compare |-> PartialCompare(d, dek, k)]

\* The keys a sequence of calls names, and the last call on key k.
CallKeys(calls) == {calls[i].key : i \in 1..Len(calls)}
LastCall(calls, k) ==
    calls[CHOOSE i \in 1..Len(calls) :
            /\ calls[i].key = k
            /\ \A j \in (i + 1)..Len(calls) : calls[j].key # k]

----------------------------------------------------------------------------
(* Spec: one plaintext database directory through its sessions, with       *)
(* single operations and transactions.                                     *)

Next ==
    \/ \E create \in BOOLEAN :
            OpenDb(create, None, Some(TestPolicy), <<201>>, 1)
    \/ Drop
    \/ \E k \in UserKeys, v \in UserValues : Write(k, v, 1)
    \/ \E k \in UserKeys : Delete(k)
    \/ BeginTransaction
    \/ \E k \in UserKeys, v \in UserValues, h \in CallerHandles :
            TransactionalWrite(k, v, h, 1)
    \/ \E k \in UserKeys, h \in CallerHandles : TransactionalDelete(k, h)
    \/ \E h \in CallerHandles : CommitTransaction(h)
    \/ \E h \in CallerHandles : RollbackTransaction(h)

Spec == Init /\ [][Next]_vars

----------------------------------------------------------------------------
(* C1.  A transaction's writes are atomic.  The step that queues an        *)
(* operation on a handle changes nothing in the engine, and while the      *)
(* handle stays registered no step changes what read, has_key, keys,       *)
(* partial_compare_keys and partial_compare return about a key the handle  *)
(* has written or deleted.  When commit_transaction(h) returns Ok, every   *)
(* key whose last operation on h was a write of v reads as v.              *)

NothingObservedBeforeCommit ==
    (db' # db \/ password' # password) =>
        \A h \in (DOMAIN issued) \cap (DOMAIN issued') :
            /\ issued'[h] = issued[h]
            /\ \A k \in CallKeys(issued[h]) :
                    ObservationAt(db', password', k) = ObservationAt(db, password, k)

EverythingObservedAfterCommit ==
    last'.op = "commit_transaction" =>
        \A h \in DOMAIN issued :
            CommitTransaction(h) =>
                /\ last'.res = "Ok"
                /\ \A k \in CallKeys(issued[h]) :
                        LastCall(issued[h], k).put =>
                            Read(db', password', k) =
                                <<"Ok", Some(LastCall(issued[h], k).value)>>

\* C1: a transaction's writes are unobserved before its commit and all
\* readable after it.
C1_TransactionAtomic ==
    [][NothingObservedBeforeCommit /\ EverythingObservedAfterCommit]_vars

\* A commit of two writes to two keys has returned Ok and both are read.
C1_Witness ==
    /\ last = ResultN("commit_transaction", "Ok", 2)
    /\ ReadResult(<<67>>) = <<"Ok", Some(<<120>>)>>
    /\ ReadResult(<<69>>) = <<"Ok", Some(<<121>>)>>

(* C2.  A rolled-back transaction is never observable.  The contents of    *)
(* the engine are at every moment those the committed calls produce: the   *)
(* single writes and deletes and the calls of the committed handles, in    *)
(* the order of their commits.  The calls of a handle that was rolled back *)
(* or dropped are not among them, and such a handle is registered no more. *)

\* C2: the engine holds what the committed calls produce, and an ended
\* handle is not registered.
C2_RollbackNeverObservable ==
    /\ db = shadow
    /\ ended \cap DOMAIN transactions = {}

\* A rollback has discarded two pending operations.
C2_Witness ==
    /\ last = ResultN("rollback_transaction", "Ok", 2)
    /\ ended # {}

(* C3.  A handle is usable from begin_transaction until its commit or      *)
(* rollback.  On a handle that has been committed, rolled back or dropped, *)
(* or that begin_transaction never returned, transactional_write,          *)
(* transactional_delete, commit_transaction and rollback_transaction       *)
(* return NotFound("Transaction") and change neither the engine nor the    *)
(* registry.                                                               *)

Refused(op) ==
    /\ last' = Result(op, "NotFound(Transaction)")
    /\ UNCHANGED <<db, transactions>>

NotUsable(h) == h \in ended \/ h > uuids

HandleRefused ==
    \A h \in CallerHandles :
        NotUsable(h) =>
            /\ last'.op = "transactional_write" =>
                    \A k \in UserKeys, v \in UserValues :
                        TransactionalWrite(k, v, h, 1) =>
                            Refused("transactional_write")
            /\ last'.op = "transactional_delete" =>
                    \A k \in UserKeys :
                        TransactionalDelete(k, h) =>
                            Refused("transactional_delete")
            /\ last'.op = "commit_transaction" =>
                    (CommitTransaction(h) => Refused("commit_transaction"))
            /\ last'.op = "rollback_transaction" =>
                    (RollbackTransaction(h) => Refused("rollback_transaction"))

\* C3: every operation on a handle that is not usable is refused with
\* NotFound("Transaction") and changes nothing.
C3_HandleLifecycle == [][HandleRefused]_vars

\* An operation on a handle that had ended was refused.
C3_Witness ==
    /\ last = Result("transactional_write", "NotFound(Transaction)")
    /\ ended # {}
    /\ uuids = MaxTx

(* C6.  Plaintext round trip.  Without a password, after write(k, v)       *)
(* returns Ok read(k) returns v, whatever k held before; after delete(k)   *)
(* returns Ok read(k) returns None; and what read(k) returns changes only  *)
(* in a step that commits a write or a delete of k.                        *)

CommitsOn(k) ==
    \/ \E v \in UserValues : Write(k, v, 1)
    \/ Delete(k)
    \/ \E h \in DOMAIN issued :
            CommitTransaction(h) /\ k \in CallKeys(issued[h])

PlainRoundTrip ==
    (open /\ password = None) =>
        /\ last' = Result("write", "Ok") =>
                \A k \in UserKeys, v \in UserValues :
                    Write(k, v, 1) => Read(db', password', k) = <<"Ok", Some(v)>>
        /\ last' = Result("delete", "Ok") =>
                \A k \in UserKeys :
                    Delete(k) => Read(db', password', k) = <<"Ok", None>>
        /\ db' # db =>
                \A k \in UserKeys :
                    Read(db', password', k) # Read(db, password, k) => CommitsOn(k)

\* C6: in plaintext mode a written value is read back, a deleted key reads
\* None, and nothing else changes what a key reads as.
C6_PlaintextRoundTrip == [][PlainRoundTrip]_vars

\* A write has replaced the value of one key, and a delete has emptied the
\* other.
C6_Witness ==
    /\ open /\ password = None
    /\ last = Result("delete", "Ok")
    /\ ReadResult(<<67>>) = <<"Ok", Some(<<121>>)>>
    /\ ReadResult(<<69>>) = <<"Ok", None>>
    /\ shadow # NoData

----------------------------------------------------------------------------
(* SpecEnc: one database directory encrypted under password "p", through   *)
(* its sessions, with single operations, typed set, and transactions that  *)
(* are committed.                                                          *)

\* The value write and transactional_write are given, "x", and the String
\* set is given, a double quote.
EncValues == {<<120>>}
SetValues == {<<34>>}
OptionHandles == {None} \cup {Some(h) : h \in CallerHandles}

NextEnc ==
    \/ \E create \in BOOLEAN :
            OpenDb(create, Some(<<112>>), Some(TestPolicy), <<201>>, 1)
    \/ Drop
    \/ \E k \in UserKeys, v \in EncValues : Write(k, v, 1)
    \/ \E k \in UserKeys : Delete(k)
    \/ \E k \in UserKeys, v \in SetValues, t \in OptionHandles : Set(k, v, t, 1)
    \/ BeginTransaction
    \/ \E k \in UserKeys, v \in EncValues, h \in CallerHandles :
            TransactionalWrite(k, v, h, 1)
    \/ \E h \in CallerHandles : CommitTransaction(h)

SpecEnc == Init /\ [][NextEnc]_vars

(* C7.  Encrypted round trip.  Under a password, after write(k, v) returns *)
(* Ok read(k) returns v; after set(k, v) returns Ok get(k) returns v;      *)
(* after delete(k) returns Ok read(k) returns None; after                  *)
(* commit_transaction returns Ok every key whose last operation on the     *)
(* handle was a write of v reads as v; and in each case the bytes the      *)
(* engine holds for k differ from v and open to v under the resident DEK.  *)

\* After the step, the engine holds for k bytes other than v that open to v.
Enveloped(k, v) ==
    /\ k \in DOMAIN db'
    /\ db'[k] # v
    /\ DecryptData(password', db'[k]) = Some(v)

EncryptedRoundTrip ==
    (open /\ password # None) =>
        /\ last' = Result("write", "Ok") =>
                /\ \A k \in UserKeys, v \in EncValues :
                        Write(k, v, 1) =>
                            /\ Read(db', password', k) = <<"Ok", Some(v)>>
                            /\ Enveloped(k, v)
                /\ \A k \in UserKeys, v \in SetValues :
                        Set(k, v, None, 1) =>
                            /\ Get(db', password', k) = <<"Ok", Some(v)>>
                            /\ Enveloped(k, ToJson(v))
        /\ last' = Result("delete", "Ok") =>
                \A k \in UserKeys :
                    Delete(k) => Read(db', password', k) = <<"Ok", None>>
        /\ last'.op = "commit_transaction" =>
                \A h \in DOMAIN issued :
                    CommitTransaction(h) =>
                        \A k \in CallKeys(issued[h]) :
                            LET call == LastCall(issued[h], k) IN
                            call.put =>
                                /\ Read(db', password', k) = <<"Ok", Some(call.value)>>
                                /\ Enveloped(k, call.value)
                                /\ \A v \in SetValues :
                                        call.value = ToJson(v) =>
                                            Get(db', password', k) = <<"Ok", Some(v)>>

\* C7: in encrypted mode a written or set value is read or got back, and the
\* engine holds it as an envelope under the resident DEK.
C7_EncryptedRoundTrip == [][EncryptedRoundTrip]_vars

\* In an encrypted database a transaction with a write and a set has been
\* committed: one key reads as "x", the other gets as the double quote.
C7_Witness ==
    /\ open /\ password # None
    /\ last = ResultN("commit_transaction", "Ok", 2)
    /\ \E k \in UserKeys, j \in UserKeys :
            /\ ReadResult(k) = <<"Ok", Some(<<120>>)>>
            /\ GetResult(j) = <<"Ok", Some(<<34>>)>>
            /\ db[j] # ToJson(<<34>>)

----------------------------------------------------------------------------
(* C10.  The reserved DEK key is never listed.  In an open encrypted       *)
(* database keys(), partial_compare_keys(p) and partial_compare(p) return  *)
(* Ok for every prefix p and none of them lists the key "DEK".             *)

C10_DekNeverListed ==
    (open /\ password # None) =>
        /\ KeysResult[1] = "Ok"
        /\ ~InSeq(KeysResult[2], DEK_KEY)
        /\ \A p \in Prefixes :
                /\ PartialCompareKeysResult(p)[1] = "Ok"
                /\ ~InSeq(PartialCompareKeysResult(p)[2], DEK_KEY)
                /\ PartialCompareResult(p)[1] = "Ok"
                /\ \A i \in 1..Len(PartialCompareResult(p)[2]) :
                        PartialCompareResult(p)[2][i][1] # DEK_KEY

----------------------------------------------------------------------------
(* SpecBackup: a database, plaintext or encrypted under password "p", is   *)
(* filled, backed up and deleted; a new one is created, a caller's         *)
(* transaction may hold keys in it, and the backup is restored into it.    *)

\* Backup passwords "p", which passes the tests' policy, and "", which fails
\* it; restore passwords "p" and "q".
BackupPasswords == {<<112>>, <<>>}
RestorePasswords == {<<112>>, <<113>>}

NextBackup ==
    \/ \E pw \in {None, Some(<<112>>)} :
            OpenDb(TRUE, pw, Some(TestPolicy), <<201>>, 1)
    \/ \E k \in UserKeys : Write(k, <<120>>, 1)
    \/ BeginTransaction
    \/ \E k \in UserKeys, h \in CallerHandles :
            TransactionalWrite(k, <<121>>, h, 1)
    \/ \E pw \in BackupPasswords : Backup(pw, <<203>>, 1)
    \/ DeleteDbFiles
    \/ \E pw \in RestorePasswords : RestoreBackup(pw)

SpecBackup == Init /\ [][NextBackup]_vars

\* The keys of the records of a backup stream.
RecordKeys(stream) ==
    LET records == ReadUntil(stream, <<>>) IN
    {HexDecode(SubSeq(records[i], 1, FirstComma(records[i]) - 1)) :
        i \in 1..Len(records)}

(* C4.  Every call of restore_backup ends with its transaction committed   *)
(* or rolled back: no transaction that restore_backup began is in the      *)
(* registry once the call has returned.                                    *)

C4_RestoreEndsItsTransaction == restore_ids \cap DOMAIN transactions = {}

(* C5.  restore_backup is atomic.  If it returns an error the engine holds *)
(* what it held before the call, so every read returns what it returned    *)
(* before; if it returns Ok the engine holds every entry the backup was    *)
(* made of.                                                                *)

RestoreAtomic ==
    last'.op = "restore_backup" =>
        \A pw \in RestorePasswords :
            RestoreBackup(pw) =>
                IF last'.res = "Ok"
                THEN \A k \in DOMAIN snapshot :
                        EngineGet(db', k) = Some(snapshot[k])
                ELSE /\ db' = db
                     /\ password' = password
                     /\ \A k \in UserKeys \cup {DEK_KEY} :
                            ObservationAt(db', password', k)
                                = ObservationAt(db, password, k)

\* C5: a failed restore_backup leaves the engine as it was, a successful one
\* leaves every backed-up entry in it.
C5_RestoreAtomic == [][RestoreAtomic]_vars

\* restore_backup has failed on a key a caller's transaction holds, after it
\* had put a record, and the engine does not hold that record.
C5_Witness ==
    /\ last = ResultN("restore_backup", "WriteError", 1)
    /\ \E h \in restore_ids \cap DOMAIN transactions :
            /\ Len(transactions[h]) = 1
            /\ transactions[h][1].key \notin DOMAIN db

(* C8.  Backup and restore round trip.  restore_backup with the password   *)
(* of the backup, into a database that holds nothing but its own DEK entry *)
(* and has no transaction, returns Ok and leaves the engine with the       *)
(* entries the backed-up database had, byte for byte, the DEK entry        *)
(* excepted.                                                               *)

Fresh == open /\ DOMAIN db \subseteq {DEK_KEY} /\ DOMAIN transactions = {}

RoundTrip ==
    (Fresh /\ dek_file # None /\ last'.op = "restore_backup") =>
        \A pw \in RestorePasswords :
            (RestoreBackup(pw) /\ CocoonParse(Utf8(pw), dek_file[1]) # None) =>
                /\ last'.res = "Ok"
                /\ (DOMAIN db') \ {DEK_KEY} = (DOMAIN snapshot) \ {DEK_KEY}
                /\ \A k \in (DOMAIN snapshot) \ {DEK_KEY} : db'[k] = snapshot[k]

\* C8: restoring a backup into a fresh database yields the user entries of
\* the backed-up one, byte for byte.
C8_BackupRestoreRoundTrip == [][RoundTrip]_vars

\* An encrypted database with two entries was backed up and removed, and the
\* backup has been restored into the database created anew in its place,
\* which nothing had been written to: the engine holds the three entries of
\* the backup and nothing else.
C8_Witness ==
    /\ last = ResultN("restore_backup", "Ok", 3)
    /\ DOMAIN snapshot = UserKeys \cup {DEK_KEY}
    /\ db = snapshot
    /\ transactions = <<>>
    /\ given = NoData

(* C9.  backup never exports the reserved DEK entry: no record of a backup *)
(* stream has the key "DEK".                                               *)

C9_BackupOmitsDek ==
    backup_file # None => DEK_KEY \notin RecordKeys(backup_file[1].plain)

-----------------------------------------------------------------------------
(* SpecDek: one database directory encrypted under password "p", where the *)
(* caller also names the key "DEK" in its writes and deletes.              *)

\* The keys the caller names: "C", and the key of the reserved entry.
DekKeys == {<<67>>, DEK_KEY}
RotationPasswords == {<<112>>, <<113>>}

NextDek ==
    \/ \E create \in BOOLEAN, pw \in RotationPasswords :
            OpenDb(create, Some(pw), Some(TestPolicy), <<201>>, 1)
    \/ Drop
    \/ \E k \in DekKeys : Write(k, <<120>>, 1)
    \/ \E k \in DekKeys : Delete(k)
    \/ \E old \in RotationPasswords, new \in RotationPasswords :
            ChangePassword(old, new, 1)
    \/ BeginTransaction
    \/ \E k \in DekKeys, h \in CallerHandles : TransactionalWrite(k, <<120>>, h, 1)
    \/ \E k \in DekKeys, h \in CallerHandles : TransactionalDelete(k, h)
    \/ \E h \in CallerHandles : CommitTransaction(h)

SpecDek == Init /\ [][NextDek]_vars

(* C11.  The reserved entry is changed by change_password only: while an   *)
(* encrypted Storage is open, the engine holds an entry under "DEK", and   *)
(* that entry unwraps under the current passphrase to the resident DEK.    *)

C11_DekSlotReserved ==
    (open /\ password # None) =>
        /\ DEK_KEY \in DOMAIN db
        /\ passphrase # None
        /\ CocoonParse(Utf8(passphrase[1]), db[DEK_KEY]) = password

-----------------------------------------------------------------------------
(* SpecKeys: one plaintext database with the keys "C", "CC", "CD" and "D", *)
(* written and deleted one at a time and, for "CC", in transactions.       *)

PrefixKeys == {<<67>>, <<67, 67>>, <<67, 68>>, <<68>>}
TransactionKeys == {<<67, 67>>}
\* The prefixes asked for: "", "B", "C", "CC", "CCC", "CD", "CE", "D", "E".
KeyPrefixes == {<<>>, <<66>>, <<67>>, <<67, 67>>, <<67, 67, 67>>, <<67, 68>>,
                <<67, 69>>, <<68>>, <<69>>}

NextKeys ==
    \/ \E create \in BOOLEAN :
            OpenDb(create, None, Some(TestPolicy), <<201>>, 1)
    \/ Drop
    \/ \E k \in PrefixKeys : Write(k, <<120>>, 1)
    \/ \E k \in PrefixKeys : Delete(k)
    \/ BeginTransaction
    \/ \E k \in TransactionKeys, h \in CallerHandles :
            TransactionalWrite(k, <<120>>, h, 1)
    \/ \E h \in CallerHandles : CommitTransaction(h)

SpecKeys == Init /\ [][NextKeys]_vars

\* C12: partial_compare_keys(p) returns Ok with the committed keys that start
\* with p, each once, in ascending byte order, for every prefix p.
C12_PrefixKeysExact ==
    open =>
        \A p \in KeyPrefixes :
            LET r == PartialCompareKeys(db, p) IN
            /\ r[1] = "Ok"
            /\ {r[2][i] : i \in 1..Len(r[2])} =
                    {k \in DOMAIN db : StartsWith(k, p)}
            /\ \A i \in 1..Len(r[2]), j \in 1..Len(r[2]) :
                    i < j => BytesLess(r[2][i], r[2][j])

\* The four keys are committed and a write of "CC" is pending: the keys with
\* prefix "C" are listed up to "D", and those with prefix "CC" up to "CD".
C12_Witness ==
    /\ open
    /\ DOMAIN db = PrefixKeys
    /\ \E h \in DOMAIN transactions : transactions[h] # <<>>
    /\ PartialCompareKeys(db, <<67>>) = <<"Ok", <<<<67>>, <<67, 67>>, <<67, 68>>>>>>
    /\ PartialCompareKeys(db, <<67, 67>>) = <<"Ok", <<<<67, 67>>>>>>

-----------------------------------------------------------------------------
(* C13.  partial_compare(p) returns Ok with the pairs (k, v) of the        *)
(* committed keys k that start with p, in ascending key order, v being the *)
(* value last written to k; the entries whose key does not start with p    *)
(* have no part in it.  Stated on SpecEnc for the prefixes "C" and "E".    *)

C13_PrefixPairsExact ==
    open =>
        \A p \in UserKeys :
            LET r == PartialCompare(db, password, p) IN
            /\ r[1] = "Ok"
            /\ {r[2][i][1] : i \in 1..Len(r[2])} =
                    {k \in DOMAIN db : StartsWith(k, p)}
            /\ \A i \in 1..Len(r[2]) : r[2][i][2] = given[r[2][i][1]]
            /\ \A i \in 1..Len(r[2]), j \in 1..Len(r[2]) :
                    i < j => BytesLess(r[2][i][1], r[2][j][1])

-----------------------------------------------------------------------------
(* SpecPassword: one database directory, plaintext or encrypted, through   *)
(* its sessions: it is opened in the mode its contents were written in,    *)
(* with the password "p", "q" or "", and its password is changed.          *)

\* The passwords change_password is given as the new one and open_db as the
\* password of the configuration: "p", "q", and "", which fails the tests'
\* policy.
NewPasswords == RotationPasswords \cup {<<>>}
OpenPasswords == {None} \cup {Some(pw) : pw \in NewPasswords}

\* The caller opens a database that holds entries in the mode they were
\* written in.
SameMode(config_password) ==
    DOMAIN db = {} \/ ((config_password = None) <=> (DEK_KEY \notin DOMAIN db))

NextPassword ==
    \/ \E create \in BOOLEAN, pw \in OpenPasswords, bytes \in Deks :
            SameMode(pw) /\ OpenDb(create, pw, Some(TestPolicy), bytes, 1)
    \/ Drop
    \/ \E k \in UserKeys : Write(k, <<120>>, 1)
    \/ \E old \in RotationPasswords, new \in NewPasswords :
            ChangePassword(old, new, 1)
    \/ BeginTransaction
    \/ \E k \in UserKeys, h \in CallerHandles :
            TransactionalWrite(k, <<120>>, h, 1)

SpecPassword == Init /\ [][NextPassword]_vars

\* What the reads of the keys return when the contents are the values given.
ReadsGiven(d, dek) ==
    \A k \in UserKeys :
        Read(d, dek, k) =
            <<"Ok", IF k \in DOMAIN given THEN Some(given[k]) ELSE None>>

\* The step opens the database that change_password(P1, P2) last returned Ok
\* on: with P2 it returns Ok and the reads return the values written, with P1
\* it returns WrongPassword.
ReopenAfterRotation ==
    \A create \in BOOLEAN, pw \in RotationPasswords, bytes \in Deks :
        OpenDb(create, Some(pw), Some(TestPolicy), bytes, 1) =>
            /\ pw = rotation[1][2] =>
                    /\ last'.res = "Ok"
                    /\ ReadsGiven(db', password')
            /\ pw = rotation[1][1] => last'.res = "WrongPassword"

(* C14 as stated.  After change_password(P1, P2) has returned Ok, for any  *)
(* P1 and any P2 that passes the policy, opening the database with P2      *)
(* returns Ok and every read returns the value written, and opening it     *)
(* with P1 returns WrongPassword.                                          *)

ChangePasswordFrame ==
    (last'.op = "change_password" /\ last'.res = "Ok") =>
        /\ password' = password
        /\ DOMAIN db' = DOMAIN db
        /\ \A k \in (DOMAIN db) \ {DEK_KEY} : db'[k] = db[k]
        /\ transactions' = transactions
        /\ \A k \in UserKeys : Read(db', password', k) = Read(db, password, k)
        /\ PartialCompareKeys(db', <<>>) = PartialCompareKeys(db, <<>>)
        /\ UNCHANGED <<exists, damaged, open, password_policy, backup_file, dek_file>>

\* C15: a change_password that returns Ok changes the reserved entry only.
C15_ChangePasswordFrame == [][ChangePasswordFrame]_vars

\* change_password("p", "q") has returned Ok on a database holding "C" and
\* "E", with a transaction registered that holds a write.
C15_Witness ==
    /\ last = Result("change_password", "Ok")
    /\ rotation = Some(<<<<112>>, <<113>>>>)
    /\ CocoonParse(<<113>>, db[DEK_KEY]) = password
    /\ UserKeys \subseteq DOMAIN db
    /\ \E h \in DOMAIN transactions : transactions[h] # <<>>

(* C16.  change_password returns NoPasswordSet on a plaintext Storage;     *)
(* else WeakPassword when the new password fails the policy; else          *)
(* WrongPassword when the stored entry does not unwrap under the old       *)
(* password.  Whenever it returns an error the engine holds what it held   *)
(* before the call, the reserved entry included.                           *)

ChangePasswordErrors ==
    (open /\ last'.op = "change_password") =>
        \A old \in RotationPasswords, new \in NewPasswords :
            ChangePassword(old, new, 1) =>
                /\ password = None => last'.res = "NoPasswordSet"
                /\ (password # None /\ ~IsValid(password_policy, new))
                        => last'.res = "WeakPassword"
                /\ (/\ password # None
                    /\ IsValid(password_policy, new)
                    /\ DEK_KEY \in DOMAIN db
                    /\ CocoonParse(Utf8(old), db[DEK_KEY]) = None)
                        => last'.res = "WrongPassword"
                /\ last'.res # "Ok" => db' = db

\* C16: change_password returns NoPasswordSet, WeakPassword or WrongPassword
\* in that order of its checks, and an error leaves the engine unchanged.
C16_ChangePasswordErrors == [][ChangePasswordErrors]_vars

\* change_password("p", "q") has returned WrongPassword on a database whose
\* password is "q" and which holds "C".
C16_Witness ==
    /\ last = Result("change_password", "WrongPassword")
    /\ open
    /\ password # None
    /\ passphrase = Some(<<113>>)
    /\ CocoonParse(<<112>>, db[DEK_KEY]) = None
    /\ <<67>> \in DOMAIN db

-----------------------------------------------------------------------------
(* SpecPolicy: one database directory opened under several policies and    *)
(* with several passwords, whose password is changed and which is backed   *)
(* up.                                                                     *)

\* "ABC123!@#abc", which passes the default policy.
StrongPassword == <<65, 66, 67, 49, 50, 51, 33, 64, 35, 97, 98, 99>>
\* A policy that asks for a length of two and nothing else.
PairPolicy ==
    [min_length |-> 2, min_number_of_special_chars |-> 0,
     min_number_of_uppercase |-> 0, min_number_of_digits |-> 0]
\* The default policy, the tests' policy, and the policy of length two.
PolicyConfigs == {None, Some(TestPolicy), Some(PairPolicy)}
\* The strong password, "p", and "e" with an acute accent (one character, two
\* bytes).
PolicyPasswords == {StrongPassword, <<112>>, <<233>>}

NextPolicy ==
    \/ \E create \in BOOLEAN, pw \in PolicyPasswords, cfg \in PolicyConfigs :
            OpenDb(create, Some(pw), cfg, <<201>>, 1)
    \/ \E cfg \in PolicyConfigs : OpenDb(TRUE, None, cfg, <<201>>, 1)
    \/ Drop
    \/ \E old \in PolicyPasswords, new \in PolicyPasswords :
            ChangePassword(old, new, 1)
    \/ \E pw \in PolicyPasswords : Backup(pw, <<203>>, 1)

SpecPolicy == Init /\ [][NextPolicy]_vars

\* The step creates a database with a password.
Creates(pw, cfg) ==
    ~exists /\ OpenDb(TRUE, Some(pw), cfg, <<201>>, 1)

(* C17 as stated.  change_password with the new password P2, backup with   *)
(* the password P2 and the creation of a database with the password P2     *)
(* return WeakPassword whenever P2 fails the policy in force, and Ok        *)
(* whenever P2 passes it.                                                  *)

PolicyAloneDecides ==
    /\ (open /\ last'.op = "change_password") =>
            \A old \in PolicyPasswords, new \in PolicyPasswords :
                ChangePassword(old, new, 1) =>
                    last'.res = IF IsValid(password_policy, new)
                                THEN "Ok" ELSE "WeakPassword"
    /\ (open /\ last'.op = "backup") =>
            \A pw \in PolicyPasswords :
                Backup(pw, <<203>>, 1) =>
                    last'.res = IF IsValid(password_policy, pw)
                                THEN "Ok" ELSE "WeakPassword"
    /\ (~exists /\ last'.op = "new") =>
            \A pw \in PolicyPasswords, cfg \in PolicyConfigs :
                Creates(pw, cfg) =>
                    last'.res = IF IsValid(PolicyOf(cfg), pw)
                                THEN "Ok" ELSE "WeakPassword"

\* C17 as stated: the three calls return WeakPassword when the password
\* fails the policy and Ok when it passes.
C17_PolicyAloneDecides == [][PolicyAloneDecides]_vars

(* C17, amended.  backup and the creation of a database return             *)
(* WeakPassword when P2 fails the policy in force and Ok when it passes.   *)
(* change_password on an encrypted Storage returns WeakPassword when P2    *)
(* fails the policy; when P2 passes it returns Ok if the stored entry      *)
(* unwraps under the old password and WrongPassword if not.  On a          *)
(* plaintext Storage it returns NoPasswordSet whatever P2.                 *)

PolicyDecides ==
    /\ (open /\ last'.op = "change_password") =>
            \A old \in PolicyPasswords, new \in PolicyPasswords :
                ChangePassword(old, new, 1) =>
                    last'.res =
                        IF password = None THEN "NoPasswordSet"
                        ELSE IF ~IsValid(password_policy, new)
                            THEN "WeakPassword"
                        ELSE IF CocoonParse(Utf8(old), db[DEK_KEY]) # None
                            THEN "Ok"
                        ELSE "WrongPassword"
    /\ (open /\ last'.op = "backup") =>
            \A pw \in PolicyPasswords :
                Backup(pw, <<203>>, 1) =>
                    last'.res = IF IsValid(password_policy, pw)
                                THEN "Ok" ELSE "WeakPassword"
    /\ (~exists /\ last'.op = "new") =>
            \A pw \in PolicyPasswords, cfg \in PolicyConfigs :
                Creates(pw, cfg) =>
                    last'.res = IF IsValid(PolicyOf(cfg), pw)
                                THEN "Ok" ELSE "WeakPassword"

\* C17, amended: the policy decides WeakPassword; change_password then
\* returns Ok only if the old password unwraps the entry.
C17_PolicyDecides == [][PolicyDecides]_vars

\* An encrypted Storage opened under the default policy has refused to change
\* its password to "p".
C17_Witness ==
    /\ last = Result("change_password", "WeakPassword")
    /\ open
    /\ password # None
    /\ password_policy = DefaultPolicy
    /\ passphrase = Some(StrongPassword)

(* C18.  Opening a database that holds a wrapped DEK does not check the    *)
(* password against the policy: with the password the DEK is wrapped       *)
(* under it returns Ok whatever the policy in force, and with any other    *)
(* password it returns WrongPassword.                                      *)

ReopenSkipsPolicy ==
    (~open /\ DEK_KEY \in DOMAIN db /\ last'.op \in {"new", "open"}) =>
        \A create \in BOOLEAN, pw \in PolicyPasswords, cfg \in PolicyConfigs :
            OpenDb(create, Some(pw), cfg, <<201>>, 1) =>
                last'.res = IF CocoonParse(Utf8(pw), db[DEK_KEY]) # None
                            THEN "Ok" ELSE "WrongPassword"

\* C18: opening a database that holds a wrapped DEK returns Ok with its
\* password and WrongPassword with another, whatever the policy.
C18_ReopenSkipsPolicy == [][ReopenSkipsPolicy]_vars

(* C19.  is_valid(p) is true exactly when p has min_length characters or   *)
(* more, and as many uppercase letters, digits and special characters as   *)
(* the policy asks for, each counted per character; the default policy     *)
(* asks for 12, 3, 3 and 3.  Stated on the calls that apply it: backup and *)
(* open with a password return WeakPassword exactly when the password      *)
(* fails that test.                                                        *)

\* The test the claim states, with the length in characters.
ValidByCharacters(policy, pw) ==
    /\ Len(pw) >= policy.min_length
    /\ CountIn(pw, SPECIAL) >= policy.min_number_of_special_chars
    /\ CountIn(pw, UPPERCASE) >= policy.min_number_of_uppercase
    /\ CountIn(pw, DIGITS) >= policy.min_number_of_digits

CountsByCharacter ==
    /\ (open /\ last'.op = "backup") =>
            \A pw \in PolicyPasswords :
                Backup(pw, <<203>>, 1) =>
                    (last'.res = "WeakPassword"
                        <=> ~ValidByCharacters(password_policy, pw))
    /\ (~open /\ last'.op \in {"new", "open"}) =>
            \A create \in BOOLEAN, pw \in PolicyPasswords, cfg \in PolicyConfigs :
                ((create \/ exists) /\ OpenDb(create, Some(pw), cfg, <<201>>, 1)) =>
                    /\ last'.res = "WeakPassword"
                            <=> ~ValidByCharacters(PolicyOf(cfg), pw)
                    /\ (cfg = None /\ last'.res = "Ok") =>
                            password_policy' =
                                [min_length |-> 12,
                                 min_number_of_special_chars |-> 3,
                                 min_number_of_uppercase |-> 3,
                                 min_number_of_digits |-> 3]

\* C19: WeakPassword is returned exactly when the password fails the test
\* with every count taken per character; the default policy is 12/3/3/3.
C19_CountsByCharacter == [][CountsByCharacter]_vars

(* C20.  Contents persist across sessions.  Opening a database again in    *)
(* the mode it was written in, with the password it has when it is        *)
(* encrypted, returns Ok, and every read returns the value written; the    *)
(* DEK generated when the database was first opened with a password is the *)
(* resident DEK of every later session; opening an encrypted database with *)
(* another password returns WrongPassword and leaves the engine as it was. *)
(* A first open with a password that fails the policy returns              *)
(* WeakPassword.  Stated on SpecPassword.                                  *)

\* The DEK inside the reserved entry of d, read with the key the container
\* was sealed under.
StoredDek(d) ==
    LET blob == d[DEK_KEY]
        key == SubSeq(blob, Len(CocoonMagic) + 3,
                      Len(CocoonMagic) + 2 + blob[Len(CocoonMagic) + 2])
    IN CocoonParse(key, blob)

Persists ==
    /\ (~open /\ last'.op \in {"new", "open"} /\ last'.res # "CreationError") =>
            \A create \in BOOLEAN, pw \in OpenPasswords, bytes \in Deks :
                (SameMode(pw) /\ OpenDb(create, pw, Some(TestPolicy), bytes, 1)) =>
                    IF pw # None /\ DEK_KEY \in DOMAIN db /\ pw # passphrase
                    THEN /\ last'.res = "WrongPassword"
                         /\ db' = db
                         /\ ~open'
                    ELSE IF /\ pw # None
                            /\ DEK_KEY \notin DOMAIN db
                            /\ ~IsValid(TestPolicy, pw[1])
                    THEN /\ last'.res = "WeakPassword"
                         /\ db' = db
                         /\ ~open'
                    ELSE /\ last'.res = "Ok"
                         /\ open'
                         /\ ReadsGiven(db', password')
                         /\ \A k \in DOMAIN db : k \in DOMAIN db' /\ db'[k] = db[k]
                         /\ pw # None =>
                                /\ password' = StoredDek(db')
                                /\ DEK_KEY \in DOMAIN db => db' = db
                                /\ DEK_KEY \notin DOMAIN db => password' = Some(bytes)
    /\ (db' # db /\ DEK_KEY \in DOMAIN db) =>
            DEK_KEY \in DOMAIN db' /\ StoredDek(db') = StoredDek(db)

\* C20: a reopened database reads as written under the DEK first generated;
\* another password returns WrongPassword and changes nothing.
C20_ContentsPersist == [][Persists]_vars

-----------------------------------------------------------------------------
(* SpecOpen: one path on which a database is created, opened, written,     *)
(* closed and removed, through Storage::new and Storage::open (the default *)
(* policy), without a password or with a password that passes it.          *)

ConfigPasswords == {None, Some(StrongPassword)}

NextOpen ==
    \/ \E create \in BOOLEAN, pw \in ConfigPasswords, bytes \in Deks :
            OpenDb(create, pw, None, bytes, 1)
    \/ Drop
    \/ \E k \in UserKeys : Write(k, <<120>>, 1)
    \/ \E k \in UserKeys : Delete(k)
    \/ DeleteDbFiles

SpecOpen == Init /\ [][NextOpen]_vars

(* C21.  Storage::open on a path that holds no database returns an error   *)
(* and leaves the path without a database; Storage::new on such a path     *)
(* creates the database and returns the Storage; Storage::new on a path    *)
(* that holds a database, whole, keeps every entry of it.                  *)

OpenRequiresExistence ==
    (~open /\ last'.op \in {"new", "open"}) =>
        /\ (~exists /\ last'.op = "open") =>
                /\ last'.res = "CreationError"
                /\ ~exists'
                /\ ~open'
                /\ db' = db
        /\ (~exists /\ last'.op = "new") =>
                /\ last'.res = "Ok"
                /\ exists'
                /\ open'
        /\ (exists /\ ~damaged /\ last'.op = "new") =>
                \A k \in DOMAIN db : k \in DOMAIN db' /\ db'[k] = db[k]

\* C21: open requires the database to exist, new creates it when it is
\* absent and keeps its contents when it is present.
C21_OpenRequiresExistence == [][OpenRequiresExistence]_vars

\* Storage::open has failed on a path that holds no database, and no
\* database is there.
C21_Witness ==
    /\ last = Result("open", "CreationError")
    /\ ~exists
    /\ ~open
    /\ db = NoData

(* C22.  The engine never holds at the same time a user value stored as    *)
(* given and a user value stored in an envelope, and every user value      *)
(* present is read without error by the Storage that is open.  Stated on   *)
(* SpecOpen, where the path is opened with and without a password.         *)

\* Whether the stored bytes are a container.
IsEnvelope(stored) ==
    /\ Len(stored) >= Len(CocoonMagic)
    /\ SubSeq(stored, 1, Len(CocoonMagic)) = CocoonMagic

\* C22: user values stored as given and user values stored in an envelope
\* never coexist, and every user value present is read without error.
C22_ModesNeverMix ==
    /\ \A k1 \in (DOMAIN db) \ {DEK_KEY}, k2 \in (DOMAIN db) \ {DEK_KEY} :
            IsEnvelope(db[k1]) <=> IsEnvelope(db[k2])
    /\ open => \A k \in (DOMAIN db) \ {DEK_KEY} :
                    Read(db, password, k) = <<"Ok", Some(given[k])>>

-----------------------------------------------------------------------------
(* SpecSidecar: a plaintext database that is written, backed up with the   *)
(* password "p", removed and created again, and restored into, while the   *)
(* password of the sidecar is changed.                                     *)

NextSidecar ==
    \/ OpenDb(TRUE, None, Some(TestPolicy), <<201>>, 1)
    \/ \E k \in UserKeys : Write(k, <<120>>, 1)
    \/ \E dek \in Deks : Backup(<<112>>, dek, 1)
    \/ \E old \in RotationPasswords, new \in NewPasswords :
            ChangeBackupPassword(old, new, 1)
    \/ DeleteDbFiles
    \/ \E pw \in RotationPasswords : RestoreBackup(pw)

SpecSidecar == Init /\ [][NextSidecar]_vars

\* The step restores from the sidecar that change_backup_password(P_old,
\* P_new) last returned Ok on: with P_new it returns Ok and the engine holds
\* every entry the backup was made of, with P_old it returns WrongPassword and
\* the engine holds what it held.
RestoreAfterSidecarChange ==
    \A pw \in RotationPasswords :
        RestoreBackup(pw) =>
            /\ pw = backup_rotation[1][2] =>
                    /\ last'.res = "Ok"
                    /\ \A k \in DOMAIN snapshot :
                            k \in DOMAIN db' /\ db'[k] = snapshot[k]
            /\ pw = backup_rotation[1][1] =>
                    /\ last'.res = "WrongPassword"
                    /\ db' = db

\* change_backup_password leaves the backup file as it is, and the sidecar
\* too when it returns an error.
SidecarChangeFrame ==
    last'.op = "change_backup_password" =>
        /\ backup_file' = backup_file
        /\ db' = db
        /\ last'.res # "Ok" => dek_file' = dek_file

(* C23 as stated.  After change_backup_password(S, P_old, P_new) has        *)
(* returned Ok, for any P_old and P_new, restore_backup with P_new restores *)
(* the contents backed up and restore_backup with P_old returns            *)
(* WrongPassword; the backup file is not modified, and the sidecar is not   *)
(* when the call fails.                                                    *)

\* C23 as stated: after any change_backup_password that returned Ok, restore
\* succeeds with the new password and returns WrongPassword with the old one.
C23_SidecarAnyPair ==
    [][/\ (open /\ backup_rotation # None /\ last'.op = "restore_backup")
            => RestoreAfterSidecarChange
       /\ SidecarChangeFrame]_vars

(* C23, amended.  The same for P_new other than P_old.                     *)

\* C23, amended: the same when the new password differs from the old one.
C23_SidecarRotation ==
    [][/\ (/\ open
           /\ backup_rotation # None
           /\ backup_rotation[1][1] # backup_rotation[1][2]
           /\ last'.op = "restore_backup")
            => RestoreAfterSidecarChange
       /\ SidecarChangeFrame]_vars

\* The database holding "C" and "E" was backed up, the password of the
\* sidecar changed from "p" to "q", the database removed and created again,
\* and the backup restored with "q".
C23_Witness ==
    /\ last = ResultN("restore_backup", "Ok", 2)
    /\ backup_rotation = Some(<<<<112>>, <<113>>>>)
    /\ DOMAIN snapshot = UserKeys
    /\ db = snapshot
    /\ given = NoData

----------------------------------------------------------------------------
(* SpecTyped: a plaintext database whose values are put with set and       *)
(* patched with update, at the top level and on transactions.              *)

TypedValues == {String(<<120>>), Object((<<97>> :> String(<<98>>)))}
Patches == {(<<97>> :> Number(2)), (<<98>> :> Number(12))}
TransactionIds == {None, Some(1)}

NextTyped ==
    \/ OpenDb(TRUE, None, Some(TestPolicy), <<201>>, 1)
    \/ \E value \in TypedValues, tx \in TransactionIds :
            SetValue(<<67>>, value, tx, 1)
    \/ \E k \in UserKeys, updates \in Patches, tx \in TransactionIds :
            Update(k, updates, tx, 1)
    \/ BeginTransaction
    \/ \E h \in Handles : CommitTransaction(h)

SpecTyped == Init /\ [][NextTyped]_vars

(* C24.  update(k, patches, tx) on a key without a value returns NotFound; *)
(* on a value that is not an object it returns SerializationError; both    *)
(* write nothing.  Otherwise the value it fetched with each patched member *)
(* replaced is written, to the engine when tx is None and to the           *)
(* transaction when tx is Some(h), and that value is returned.             *)

\* What update does under its contract; written(tx, k) tells whether the
\* write that ends the update is one the contract holds to have been made.
UpdateContract(written(_, _)) ==
    (open /\ last'.op = "update") =>
        LET k == last'.call[1]
            updates == last'.call[2]
            tx == last'.call[3]
            current == GetValue(db, password, k)
            Nothing == db' = db /\ transactions' = transactions
        IN
        Update(k, updates, tx, 1) =>
            /\ current = <<"Ok", None>> =>
                    last'.res = "NotFound(Value)" /\ Nothing
            /\ (current[1] = "Ok" /\ current[2] # None
                    /\ current[2][1].kind # "object") =>
                    last'.res = "SerializationError" /\ Nothing
            /\ (current[1] = "Ok" /\ current[2] # None
                    /\ current[2][1].kind = "object") =>
                    LET f == current[2][1].fields
                        new == Object([name \in (DOMAIN f) \cup (DOMAIN updates) |->
                                    IF name \in DOMAIN updates
                                    THEN updates[name] ELSE f[name]])
                    IN
                    IF written(tx, k)
                    THEN /\ last'.res = "Ok"
                         /\ last'.value = Some(new)
                         /\ IF tx = None
                            THEN /\ GetValue(db', password', k) = <<"Ok", Some(new)>>
                                 /\ \A j \in UserKeys \ {k} :
                                      Read(db', password', j) = Read(db, password, j)
                                 /\ transactions' = transactions
                            ELSE /\ db' = db
                                 /\ transactions' =
                                      [transactions EXCEPT ![tx[1]] =
                                          Append(@, PutOp(k, ValueToJson(new)))]
                    ELSE /\ last'.res =
                                IF tx # None /\ tx[1] \notin DOMAIN transactions
                                THEN "NotFound(Transaction)" ELSE "WriteError"
                         /\ Nothing

WriteMade(tx, k) ==
    IF tx = None THEN ~Locked(k, 0)
    ELSE tx[1] \in DOMAIN transactions /\ ~Locked(k, tx[1])

UpdateWithinTransaction ==
    (/\ open
     /\ last'.op = "update"
     /\ last'.call[3] # None
     /\ last'.call[3][1] \in DOMAIN transactions) =>
        LET k == last'.call[1]
            updates == last'.call[2]
            h == last'.call[3][1]
            inside == GetValue(ApplyOps(db, transactions[h]), password, k)
        IN
        /\ inside = <<"Ok", None>> => last'.res = "NotFound(Value)"
        /\ (inside[1] = "Ok" /\ inside[2] # None
                /\ inside[2][1].kind # "object") =>
                last'.res = "SerializationError"
        /\ (inside[1] = "Ok" /\ inside[2] # None
                /\ inside[2][1].kind = "object") =>
                \/ last'.res = "WriteError"
                \/ /\ last'.res = "Ok"
                   /\ last'.value =
                        Some(Object(Patched(inside[2][1].fields, updates)))

\* C25: update on a live handle patches the value of the key as seen inside
\* the handle (read-your-writes).
C25_UpdateWithinTransaction == [][UpdateWithinTransaction]_vars

----------------------------------------------------------------------------
(* SpecSingle: a plaintext database on which single writes and deletes are *)
(* made while transactions are begun, written to, committed and rolled     *)
(* back.                                                                   *)

NextSingle ==
    \/ OpenDb(TRUE, None, Some(TestPolicy), <<201>>, 1)
    \/ \E k \in UserKeys, v \in UserValues : Write(k, v, 1)
    \/ \E k \in UserKeys : Delete(k)
    \/ BeginTransaction
    \/ \E k \in UserKeys, h \in Handles : TransactionalWrite(k, <<120>>, h, 1)
    \/ \E h \in Handles : CommitTransaction(h)
    \/ \E h \in Handles : RollbackTransaction(h)

SpecSingle == Init /\ [][NextSingle]_vars

(* C26.  write(k, v) and delete(k) that return Ok are read back at once;   *)
(* one that returns an error leaves the engine as it was; neither changes  *)
(* the registry.  commit_transaction(h1) and rollback_transaction(h1)      *)
(* leave every other registered transaction registered with the            *)
(* operations it had.                                                      *)

SingleOperationCommits ==
    (open /\ last'.op \in {"write", "delete"}) =>
        /\ transactions' = transactions
        /\ last'.res # "Ok" => db' = db
        /\ \A k \in UserKeys :
            /\ \A v \in UserValues :
                (Write(k, v, 1) /\ last'.res = "Ok") =>
                    /\ Read(db', password', k) = <<"Ok", Some(v)>>
                    /\ \A j \in UserKeys \ {k} :
                            Read(db', password', j) = Read(db, password, j)
            /\ (Delete(k) /\ last'.res = "Ok") =>
                    /\ Read(db', password', k) = <<"Ok", None>>
                    /\ \A j \in UserKeys \ {k} :
                            Read(db', password', j) = Read(db, password, j)

OtherTransactionsKept ==
    (open /\ last'.op \in {"commit_transaction", "rollback_transaction"}) =>
        \A h1 \in Handles :
            (CommitTransaction(h1) \/ RollbackTransaction(h1)) =>
                \A h2 \in (DOMAIN transactions) \ {h1} :
                    /\ h2 \in DOMAIN transactions'
                    /\ transactions'[h2] = transactions[h2]

\* C26: a single write or delete is committed when it returns and leaves the
\* registry alone, and ending one transaction leaves every other registered
\* transaction with its pending operations.
C26_SingleOperationsCoexist ==
    [][SingleOperationCommits /\ OtherTransactionsKept]_vars

\* write("C", "y") has returned Ok and is read back while a transaction holds
\* a pending write of "E".
C26_Witness ==
    /\ last = Result("write", "Ok")
    /\ Read(db, password, <<67>>) = <<"Ok", Some(<<121>>)>>
    /\ \E h \in DOMAIN transactions :
            transactions[h] = <<PutOp(<<69>>, <<120>>)>>
    /\ <<69>> \notin DOMAIN db

----------------------------------------------------------------------------
(* SpecDrop: a plaintext database that is written, at the top level and on *)
(* transactions, and whose Storage is dropped, or passed to                *)
(* delete_db_files, and opened again.                                      *)

NextDrop ==
    \/ \E create \in BOOLEAN :
            OpenDb(create, None, Some(TestPolicy), <<201>>, 1)
    \/ Drop
    \/ DeleteDbFiles
    \/ \E k \in UserKeys : Write(k, <<120>>, 1)
    \/ BeginTransaction
    \/ \E k \in UserKeys, h \in Handles : TransactionalWrite(k, <<121>>, h, 1)
    \/ \E k \in UserKeys, h \in Handles : TransactionalDelete(k, h)
    \/ \E h \in Handles : CommitTransaction(h)

SpecDrop == Init /\ [][NextDrop]_vars

(* C27.  The drop of a Storage, whatever is registered and however the     *)
(* drop ends, leaves the engine with the contents it had and the registry  *)
(* empty; delete_db_files leaves no database when it returns Ok, the       *)
(* database with the contents it had when the drop faults, and one of the  *)
(* two, or the contents in a damaged directory, when the removal fails.    *)
(* The Storage opened next on a directory that is not damaged has an empty *)
(* registry and reads, for every key, the value last committed, and        *)
(* nothing where no value was committed or the database was removed.       *)

DropDiscards ==
    /\ (open /\ last'.op = "drop") =>
            /\ db' = db
            /\ transactions' = <<>>
            /\ discarded' = PendingKeys
    /\ (open /\ last'.op = "delete_db_files") =>
            /\ last'.res = "Ok" => db' = NoData /\ ~exists' /\ ~damaged'
            /\ last'.res = "Fault" =>
                    db' = db /\ exists' = exists /\ ~damaged'
            /\ last'.res = "IoError" =>
                    \/ db' = NoData /\ ~exists' /\ ~damaged'
                    \/ db' = db /\ exists' = exists
            /\ transactions' = <<>>
            /\ discarded' = PendingKeys
    /\ (~open /\ ~damaged /\ last'.op \in {"new", "open"}
            /\ last'.res = "Ok") =>
            /\ transactions' = <<>>
            /\ \A k \in UserKeys :
                    Read(db', password', k) = <<"Ok", EngineGet(given, k)>>

\* C27: transactions registered when the Storage is dropped, or passed to
\* delete_db_files, are discarded: the Storage opened next reads the values
\* last committed and none of the operations that were pending.
C27_DropDiscards == [][DropDiscards]_vars

\* The database has been opened again after a drop that found a write of "y"
\* and a delete pending on transactions: "C" reads "x" and "E" reads "x", as
\* committed before.
C27_Witness ==
    /\ last = Result("open", "Ok")
    /\ open
    /\ discarded = UserKeys
    /\ transactions = <<>>
    /\ Read(db, password, <<67>>) = <<"Ok", Some(<<120>>)>>
    /\ Read(db, password, <<69>>) = <<"Ok", Some(<<120>>)>>

----------------------------------------------------------------------------
(* SpecAltered: a plaintext database that is written, backed up with the   *)
(* password "p", removed, created again and restored into, while one byte  *)
(* of the backup file or of the sidecar is changed.                        *)

\* The sidecar is as backup or change_backup_password wrote it.
Sealed(blob) ==
    \E pw \in Passwords, nonce \in Nonces, dek \in Deks :
        blob = CocoonDump(Utf8(pw), nonce, dek)

Deltas == {1, 128, 255}

NextAltered ==
    \/ OpenDb(TRUE, None, Some(TestPolicy), <<201>>, 1)
    \/ \E k \in UserKeys : Write(k, <<120>>, 1)
    \/ \E dek \in Deks : Backup(<<112>>, dek, 1)
    \/ AlterBackup
    \/ \E i \in 1..Len(CocoonDump(<<112>>, 1, <<201>>)), delta \in Deltas :
            dek_file # None /\ Sealed(dek_file[1]) /\ AlterSidecar(i, delta)
    \/ DeleteDbFiles
    \/ \E pw \in RotationPasswords : RestoreBackup(pw)

SpecAltered == Init /\ [][NextAltered]_vars

(* C28.  restore_backup from a backup file with a byte changed returns     *)
(* FailedToDecryptData or WrongPassword; from a sidecar with a byte        *)
(* changed it returns WrongPassword; both leave the engine as it was.      *)
(* When restore_backup returns Ok neither file was changed and the engine  *)
(* holds every entry the backup was made of.                               *)

AlterationReported ==
    (open /\ last'.op = "restore_backup" /\ backup_file # None
          /\ dek_file # None) =>
        /\ ~Sealed(dek_file[1]) =>
                last'.res = "WrongPassword" /\ db' = db
        /\ (Sealed(dek_file[1]) /\ backup_file[1].altered) =>
                /\ last'.res \in {"FailedToDecryptData", "WrongPassword"}
                /\ db' = db
        /\ last'.res = "Ok" =>
                /\ Sealed(dek_file[1])
                /\ ~backup_file[1].altered
                /\ \A k \in DOMAIN snapshot :
                        k \in DOMAIN db' /\ db'[k] = snapshot[k]

\* C28: a changed byte of the backup file makes restore_backup return
\* FailedToDecryptData or WrongPassword, a changed byte of the sidecar makes
\* it return WrongPassword, and a restore that returns Ok has restored what
\* was backed up.
C28_AlterationReported == [][AlterationReported]_vars

----------------------------------------------------------------------------
(* SpecFault: a plaintext database that is written and deleted from, and   *)
(* whose iterator reports a read error to keys, partial_compare_keys,      *)
(* partial_compare and backup.                                             *)

FaultPositions == 1..Cardinality(UserKeys)
FaultPrefixes == {<<>>, <<67>>}

NextFault ==
    \/ OpenDb(TRUE, None, Some(TestPolicy), <<201>>, 1)
    \/ \E k \in UserKeys, v \in UserValues : Write(k, v, 1)
    \/ \E k \in UserKeys : Delete(k)
    \/ \E fault \in FaultPositions : KeysFault(fault)
    \/ \E key \in FaultPrefixes, fault \in FaultPositions :
            PartialCompareKeysFault(key, fault)
    \/ \E key \in FaultPrefixes, fault \in FaultPositions :
            PartialCompareFault(key, fault)
    \/ \E fault \in FaultPositions : BackupFault(<<112>>, <<201>>, 1, fault)

SpecFault == Init /\ [][NextFault]_vars

(* C29.  keys, partial_compare_keys, partial_compare and backup return an  *)
(* error when the iterator reports a read error to them.                   *)

\* C29: no call to which the iterator reported a read error returns Ok.
C29_IteratorErrorReturned ==
    "fault" \in DOMAIN last => last.res # "Ok"

----------------------------------------------------------------------------
(* SpecBatch: a plaintext database filled from its last key to its first,  *)
(* backed up at every size, removed, created again and restored into.      *)

\* Keys "A" to "G": more than two batches.
BatchKeys == {<<b>> : b \in 65..71}

NextBatch ==
    \/ OpenDb(TRUE, None, Some(TestPolicy), <<201>>, 1)
    \/ \E k \in BatchKeys :
            /\ k \notin DOMAIN db
            /\ \A j \in BatchKeys : BytesLess(k, j) => j \in DOMAIN db
            /\ Write(k, <<120, k[1]>>, 1)
    \/ Backup(<<112>>, <<201>>, 1)
    \/ DeleteDbFiles
    \/ RestoreBackup(<<112>>)

SpecBatch == Init /\ [][NextBatch]_vars

(* C30.  The stream that backup wrote holds one record for every entry of  *)
(* the snapshot, with the entry's value, in ascending order of the keys,   *)
(* whatever the number of entries; restore_backup that returns Ok has put  *)
(* every one of them.                                                      *)

\* The puts that restore_backup makes of the backup file.
BackupRecords ==
    RestoreLoop(ReadUntil(backup_file[1].plain, <<>>), <<>>)

\* C30: backup writes every entry of its snapshot once, in ascending key
\* order, at every entry count, and restore_backup recovers them all.
C30_BackupWritesAll ==
    /\ backup_file # None =>
            /\ BackupRecords.res = "Ok"
            /\ Len(BackupRecords.ops) = Cardinality(DOMAIN snapshot)
            /\ \A i \in 1..Len(BackupRecords.ops) :
                    /\ BackupRecords.ops[i].put
                    /\ BackupRecords.ops[i].key \in DOMAIN snapshot
                    /\ BackupRecords.ops[i].value =
                            snapshot[BackupRecords.ops[i].key]
                    /\ \A j \in (i + 1)..Len(BackupRecords.ops) :
                            BytesLess(BackupRecords.ops[i].key,
                                      BackupRecords.ops[j].key)
    /\ (last.op = "restore_backup" /\ last.res = "Ok") =>
            /\ last.n = Cardinality(DOMAIN snapshot)
            /\ \A k \in DOMAIN snapshot :
                    k \in DOMAIN db /\ db[k] = snapshot[k]

\* A backup of seven entries, written as two batches and what was left, has
\* been restored into a database created anew.
C30_Witness ==
    /\ last = ResultN("restore_backup", "Ok", 7)
    /\ DOMAIN snapshot = BatchKeys
    /\ db = snapshot
    /\ given = NoData
    /\ Len(BackupLoop(Entries(snapshot), <<>>, 0, <<>>)) > 1

(* C31.  The writes of records that backup hands to the encrypting writer. *)
(* The loop pushes the entry and then compares item_counter, which counts  *)
(* from 0, with the flush limit: a write made inside the loop holds one    *)
(* record more than the limit.                                             *)

\* The byte strings that the backup of the snapshot handed to write_all.
BackupWrites == BackupLoop(Entries(snapshot), <<>>, 0, <<>>)

\* The number of records of a write: each record ends with its ';'.
RecordsIn(bytes) == Cardinality({i \in 1..Len(bytes) : bytes[i] = 59})

\* C31: every write of records of a backup except the last holds exactly
\* the flush limit of records (1000 in the source), and no write holds more.
C31_BatchesOfFlushAt ==
    backup_file # None =>
        /\ \A i \in 1..(Len(BackupWrites) - 1) :
                RecordsIn(BackupWrites[i]) = FlushAt
        /\ \A i \in 1..Len(BackupWrites) :
                RecordsIn(BackupWrites[i]) <= FlushAt

----------------------------------------------------------------------------
(* SpecSnapshot: a plaintext database on which backups are made while      *)
(* transactions hold pending writes, and on which the transactions are     *)
(* committed after the backup.                                             *)

NextSnapshot ==
    \/ OpenDb(TRUE, None, Some(TestPolicy), <<201>>, 1)
    \/ \E k \in UserKeys, v \in UserValues : Write(k, v, 1)
    \/ BeginTransaction
    \/ \E k \in UserKeys, h \in Handles : TransactionalWrite(k, <<121>>, h, 1)
    \/ \E h \in Handles : CommitTransaction(h)
    \/ Backup(<<112>>, <<203>>, 1)

SpecSnapshot == Init /\ [][NextSnapshot]_vars

(* C32.  backup that returns Ok has written the records of the entries     *)
(* committed when it was called, in key order, and of nothing else: an     *)
(* operation pending on a transaction has no record.  No later operation   *)
(* on the database, a commit included, changes the backup file or its      *)
(* sidecar.                                                                *)

BackupOfCommitted ==
    (last'.op = "backup" /\ last'.res = "Ok") =>
        /\ backup_file' # None
        /\ backup_file'[1].plain = Serialize(Entries(db))
        /\ db' = db

BackupKept ==
    (last'.op \in {"write", "begin_transaction", "transactional_write",
                   "commit_transaction"}) =>
        /\ backup_file' = backup_file
        /\ dek_file' = dek_file

\* C32: backup exports exactly the entries committed before the call, no
\* write pending in a live transaction, and a commit made afterwards does
\* not change what was exported.
C32_PointInTimeBackup == [][BackupOfCommitted /\ BackupKept]_vars

\* backup has returned Ok with the record of "C" alone while a transaction
\* holds a pending write of "E".
C32_Witness ==
    /\ last = Result("backup", "Ok")
    /\ backup_file # None
    /\ backup_file[1].plain = Serialize(<<<<(<<67>>), (<<120>>)>>>>)
    /\ \E h \in DOMAIN transactions :
            transactions[h] = <<PutOp(<<69>>, <<121>>)>>
    /\ DOMAIN db = {<<67>>}

----------------------------------------------------------------------------
(* SpecOrder: a plaintext database on which transactions write and delete  *)
(* keys, the same key more than once, and are committed.                   *)

NextOrder ==
    \/ OpenDb(TRUE, None, Some(TestPolicy), <<201>>, 1)
    \/ \E k \in UserKeys : Write(k, <<120>>, 1)
    \/ BeginTransaction
    \/ \E k \in UserKeys, v \in UserValues, h \in Handles :
            TransactionalWrite(k, v, h, 1)
    \/ \E k \in UserKeys, h \in Handles : TransactionalDelete(k, h)
    \/ \E h \in Handles : CommitTransaction(h)

SpecOrder == Init /\ [][NextOrder]_vars

(* C33.  When commit_transaction(h) returns Ok, every key named by an      *)
(* operation of h is in the state its last operation on h gives it: read   *)
(* returns the value of a last transactional_write, and the key is absent  *)
(* after a last transactional_delete, whatever h issued on the key before. *)
(* The keys h did not name are as they were.                               *)

IssueOrderAtCommit ==
    (last'.op = "commit_transaction" /\ last'.res = "Ok") =>
        \A h \in (DOMAIN issued) \ (DOMAIN issued') :
            \A k \in UserKeys :
                IF k \notin CallKeys(issued[h])
                THEN Read(db', password', k) = Read(db, password, k)
                ELSE IF LastCall(issued[h], k).put
                THEN /\ Read(db', password', k) =
                            <<"Ok", Some(LastCall(issued[h], k).value)>>
                     /\ HasKey(db', k) = <<"Ok", TRUE>>
                ELSE /\ Read(db', password', k) = <<"Ok", None>>
                     /\ HasKey(db', k) = <<"Ok", FALSE>>

\* C33: at commit the operations of one transaction take effect in the order
\* they were issued, so each key ends as its last operation leaves it.
C33_IssueOrderAtCommit == [][IssueOrderAtCommit]_vars

\* The first transaction, of two operations, has been committed and has left
\* the database empty: its last operation on every key it named was a delete.
C33_Witness ==
    /\ last = ResultN("commit_transaction", "Ok", 2)
    /\ ended = {1}
    /\ given = NoData
    /\ shadow = NoData
    /\ db = NoData

----------------------------------------------------------------------------
(* SpecCommit: a plaintext database whose engine may fail the commit of a  *)
(* transaction.                                                            *)

NextCommit ==
    \/ OpenDb(TRUE, None, Some(TestPolicy), <<201>>, 1)
    \/ \E k \in UserKeys : Write(k, <<120>>, 1)
    \/ BeginTransaction
    \/ \E k \in UserKeys, h \in Handles : TransactionalWrite(k, <<121>>, h, 1)
    \/ \E h \in Handles : CommitTransaction(h)
    \/ \E h \in Handles : CommitTransactionFault(h)

SpecCommit == Init /\ [][NextCommit]_vars

(* C34.  commit_transaction that returns CommitError has taken the handle  *)
(* out of the registry and has changed nothing in the engine: every key    *)
(* reads as before.  commit_transaction on a handle that was committed,    *)
(* with or without success, returns NotFound("Transaction").               *)

FailedCommitDrops ==
    (last'.op = "commit_transaction" /\ last'.res = "CommitError") =>
        /\ db' = db
        /\ \A k \in UserKeys :
                ObservationAt(db', password', k) = ObservationAt(db, password, k)
        /\ Cardinality(DOMAIN transactions') = Cardinality(DOMAIN transactions) - 1
        /\ \A h \in (DOMAIN transactions) \ (DOMAIN transactions') :
                /\ h \in ended'
                /\ last'.n = Len(transactions[h])
        /\ \A h \in DOMAIN transactions' : transactions'[h] = transactions[h]

RetryNotFound ==
    last'.op = "commit_transaction" =>
        \A h \in ended :
            (CommitTransaction(h) \/ CommitTransactionFault(h)) =>
                /\ last'.res = "NotFound(Transaction)"
                /\ db' = db

\* C34: a commit that fails in the engine returns CommitError with the handle
\* already removed, so that a retry returns NotFound("Transaction"), and with
\* none of the transaction's writes visible.
C34_FailedCommit == [][FailedCommitDrops /\ RetryNotFound]_vars

\* The commit of a transaction holding a write of "C" and a write of "E" has
\* failed: the handle is gone and the database holds neither.
C34_Witness ==
    /\ last = ResultN("commit_transaction", "CommitError", 2)
    /\ ended = {1}
    /\ DOMAIN transactions = {}
    /\ db = NoData
    /\ uuids = 1

----------------------------------------------------------------------------
(* SpecFraming: a plaintext database whose keys and values are empty or    *)
(* hold the bytes ',' and ';' of the record framing, backed up and         *)
(* restored.                                                               *)

\* The keys "", "," and ";".
FramingKeys == {<<>>, <<44>>, <<59>>}
\* The values "" and ",;".
FramingValues == {<<>>, <<44, 59>>}

NextFraming ==
    \/ OpenDb(TRUE, None, Some(TestPolicy), <<201>>, 1)
    \/ \E k \in FramingKeys, v \in FramingValues : Write(k, v, 1)
    \/ Backup(<<112>>, <<203>>, 1)
    \/ RestoreBackup(<<112>>)

SpecFraming == Init /\ [][NextFraming]_vars

(* C35.  The stream of records hex(key) "," hex(value) ";" that backup     *)
(* wrote, read as restore_backup reads it (up to each ';', split at the    *)
(* first ',', both parts hex-decoded), gives back the pairs that were      *)
(* written, in their order: as many, with the same keys and the same       *)
(* values, whether a key or a value is empty or holds ',' or ';'.          *)

\* What restore_backup reads from a stream: its result and the pairs.
ParsedPairs(stream) ==
    LET r == RestoreLoop(ReadUntil(stream, <<>>), <<>>) IN
    [res |-> r.res,
     pairs |-> [i \in 1..Len(r.ops) |-> <<r.ops[i].key, r.ops[i].value>>]]

\* C35: the record framing of the backup stream round-trips every sequence
\* of pairs, empty keys and values and the bytes ',' and ';' included.
C35_FramingRoundTrip ==
    /\ backup_file # None =>
            /\ ParsedPairs(backup_file[1].plain).res = "Ok"
            /\ ParsedPairs(backup_file[1].plain).pairs = Entries(snapshot)
    /\ (backup_file # None /\ last.op = "restore_backup") =>
            /\ last.res = "Ok"
            /\ last.n = Len(Entries(snapshot))
            /\ \A k \in DOMAIN snapshot :
                    k \in DOMAIN db /\ db[k] = snapshot[k]

\* A backup of the entries ("", ",;"), (",", "") and (";", ",;") has been
\* restored.
C35_Witness ==
    /\ last = ResultN("restore_backup", "Ok", 3)
    /\ backup_file # None
    /\ ParsedPairs(backup_file[1].plain).pairs =
            << <<(<<>>), (<<44, 59>>)>>,
               <<(<<44>>), (<<>>)>>,
               <<(<<59>>), (<<44, 59>>)>> >>
    /\ db = snapshot

----------------------------------------------------------------------------
(* SpecMalformed: a plaintext database into which backup files written     *)
(* outside backup, with well-formed and malformed records, are restored.   *)

\* The streams "43,78;" (well formed), "4378;45,78;" (a record without ','),
\* "4g,78;" (a key that is not hex), "43,78" (no ';' at the end) and
\* "45,78;43,7" (no ';' at the end of the second record).
RecordStreams ==
    {<<52, 51, 44, 55, 56, 59>>,
     <<52, 51, 55, 56, 59, 52, 53, 44, 55, 56, 59>>,
     <<52, 103, 44, 55, 56, 59>>,
     <<52, 51, 44, 55, 56>>,
     <<52, 53, 44, 55, 56, 59, 52, 51, 44, 55>>}

NextMalformed ==
    \/ OpenDb(TRUE, None, Some(TestPolicy), <<201>>, 1)
    \/ \E k \in UserKeys : Write(k, <<121>>, 1)
    \/ \E stream \in RecordStreams : ForeignBackup(<<112>>, <<203>>, 1, stream)
    \/ RestoreBackup(<<112>>)

SpecMalformed == Init /\ [][NextMalformed]_vars

(* C36.  A stream is malformed when one of its records, the byte strings   *)
(* between the ';', has no ',', or has a key or a value that is not hex,   *)
(* or when it does not end with ';'.  restore_backup of a malformed stream *)
(* returns ConversionError and leaves the engine as it was.                *)

\* The records of a stream without their ';', what follows the last ';'
\* included.
RECURSIVE RecordBodies(_, _)
RecordBodies(stream, buf) ==
    IF stream = <<>> THEN (IF buf = <<>> THEN <<>> ELSE <<buf>>)
    ELSE IF Head(stream) = 59
        THEN <<buf>> \o RecordBodies(Tail(stream), <<>>)
    ELSE RecordBodies(Tail(stream), Append(buf, Head(stream)))

Malformed(stream) ==
    \/ stream # <<>> /\ stream[Len(stream)] # 59
    \/ \E i \in 1..Len(RecordBodies(stream, <<>>)) :
            LET body == RecordBodies(stream, <<>>)[i]
                c == FirstComma(body)
            IN \/ c = 0
               \/ ~HexOk(SubSeq(body, 1, c - 1))
               \/ ~HexOk(SubSeq(body, c + 1, Len(body)))

RejectsMalformed ==
    (/\ last'.op = "restore_backup"
     /\ backup_file # None
     /\ dek_file # None
     /\ Malformed(backup_file[1].plain)) =>
        /\ last'.res = "ConversionError"
        /\ db' = db

\* C36: restore_backup of a stream with a malformed record fails with
\* ConversionError and commits nothing.
C36_RejectsMalformed == [][RejectsMalformed]_vars

----------------------------------------------------------------------------
(* SpecEmpty: a database created plaintext or encrypted, with single       *)
(* writes and deletes and with transactions.                               *)

NextEmpty ==
    \/ \E pw \in {None, Some(<<112>>)} :
            OpenDb(TRUE, pw, Some(TestPolicy), <<201>>, 1)
    \/ \E k \in UserKeys : Write(k, <<120>>, 1)
    \/ \E k \in UserKeys : Delete(k)
    \/ BeginTransaction
    \/ \E k \in UserKeys, h \in Handles : TransactionalWrite(k, <<120>>, h, 1)
    \/ \E k \in UserKeys, h \in Handles : TransactionalDelete(k, h)
    \/ \E h \in Handles : CommitTransaction(h)

SpecEmpty == Init /\ [][NextEmpty]_vars

(* C37.  is_empty returns true on a plaintext database exactly when no key *)
(* has a committed write that no committed delete followed, and false on   *)
(* an encrypted database, which holds its DEK entry: true after the        *)
(* creation of a plaintext database, false after that of an encrypted one. *)
(* A step that begins a transaction or queues an operation on one does not *)
(* change what is_empty returns.                                           *)

EmptyIffNothingCommitted ==
    /\ (last'.op = "new" /\ last'.res = "Ok") =>
            IsEmpty(db') = <<"Ok", password' = None>>
    /\ open' =>
            IsEmpty(db') = <<"Ok", password' = None /\ given' = NoData>>
    /\ (last'.op \in {"begin_transaction", "transactional_write",
                      "transactional_delete"}) =>
            IsEmpty(db') = IsEmpty(db)

\* C37: is_empty is true iff the engine holds no committed entry, the
\* reserved DEK entry of an encrypted database counted and pending writes
\* not.
C37_IsEmpty == [][EmptyIffNothingCommitted]_vars

\* An encrypted database has just been created and is_empty returns false.
C37_Witness ==
    /\ last = Result("new", "Ok")
    /\ password # None
    /\ given = NoData
    /\ DOMAIN db = {DEK_KEY}
    /\ IsEmpty(db) = <<"Ok", FALSE>>

(* C38.  The fields of Storage are dropped in the order of their           *)
(* declaration: db, the engine handle, before transactions, the registry.  *)
(* A transaction registered when the Storage is dropped is destroyed after *)
(* the engine it belongs to was closed, which the engine does not define:  *)
(* the drop may end well or in a fault.                                    *)

\* C38: a Storage dropped, or consumed by delete_db_files, with live
\* transactions destroys them while the engine handle is open, so the drop
\* never faults.
C38_TransactionsDestroyedFirst ==
    last.op \in {"drop", "delete_db_files"} => last.res # "Fault"

----------------------------------------------------------------------------
(* SpecReader: a BackupFileReader made on a stream of records and used     *)
(* through fill_buf, consume, read and read_until, the stream reader under *)
(* it yielding chunks of any size.                                         *)

\* Everything but the reader.
storage == <<exists, damaged, db, open, password, password_policy, transactions,
             uuids, restore_ids, backup_file, dek_file, last, snapshot,
             issued, ended, shadow, given, passphrase, rotation,
             backup_rotation, discarded>>

\* The bytes that a call consumed, handed out to the caller.
Delivered(r, after) ==
    [reads EXCEPT !.delivered = @ \o SubSeq(r.buf, r.pos + 1, after.pos),
                  !.mixed = TRUE]

\* A reader is made on a stream.
ReaderNew(stream) ==
    /\ backup_reader' = BackupFileReaderNew(stream)
    /\ reads' = NoReads(stream)
    /\ UNCHANGED storage

\* A call of fill_buf.
CallFillBuf(n) ==
    /\ ~reads.calling
    /\ n \in InnerReads(backup_reader)
    /\ backup_reader' = FillBuf(backup_reader, n)
    /\ reads' = [reads EXCEPT !.mixed = TRUE]
    /\ UNCHANGED storage

\* A call of consume.
CallConsume(amt) ==
    /\ ~reads.calling
    /\ backup_reader' = Consume(backup_reader, amt)
    /\ reads' = Delivered(backup_reader, Consume(backup_reader, amt))
    /\ UNCHANGED storage

\* A call of read with an out of len bytes.
CallRead(len, n) ==
    /\ ~reads.calling
    /\ n \in InnerReads(backup_reader)
    /\ \E filled \in {FillBuf(backup_reader, n)} :
       \E after \in {Consume(filled, Min(Len(Available(filled)), len))} :
            /\ backup_reader' = after
            /\ reads' = Delivered(filled, after)
    /\ UNCHANGED storage

\* One turn of the loop of read_until(b';', &mut buf), on a buf that is
\* empty when the call begins: the call returns when it has met ';' or when
\* fill_buf gave nothing.
ReadUntilStep(n) ==
    /\ n \in InnerReads(backup_reader)
    /\ \E filled \in {FillBuf(backup_reader, n)} :
       \E i \in {Memchr(Available(filled))} :
       \E used \in {IF i > 0 THEN i ELSE Len(Available(filled))} :
       \E line \in {(IF reads.calling THEN reads.line ELSE <<>>)
                        \o SubSeq(Available(filled), 1, used)} :
            /\ backup_reader' = Consume(filled, used)
            /\ reads' =
                [reads EXCEPT
                    !.delivered = @ \o SubSeq(Available(filled), 1, used),
                    !.rest = IF reads.calling THEN @
                             ELSE Available(backup_reader) \o backup_reader.inner,
                    !.line = line,
                    !.calling = ~(i > 0 \/ used = 0),
                    !.returned = IF i > 0 \/ used = 0 THEN Some(line) ELSE None,
                    !.records = IF (i > 0 \/ used = 0) /\ line # <<>>
                                THEN Append(@, line) ELSE @]
    /\ UNCHANGED storage

\* The streams "ab;c;" and "abcd;e".
ReaderStreams == {<<97, 98, 59, 99, 59>>, <<97, 98, 99, 100, 59, 101>>}

NextReader ==
    \/ \E stream \in ReaderStreams : ReaderNew(stream)
    \/ \E n \in 0..BufSize : CallFillBuf(n)
    \/ \E amt \in 0..(BufSize + 1) : CallConsume(amt)
    \/ \E len \in 1..2, n \in 0..BufSize : CallRead(len, n)
    \/ \E n \in 0..BufSize : ReadUntilStep(n)

SpecReader == Init /\ [][NextReader]_vars

(* C39.  In every state of the reader 0 <= pos <= cap <= the size of the   *)
(* buffer.  The bytes handed out so far, then the bytes of the buffer from *)
(* pos to cap, then what the stream reader has still to yield, are the     *)
(* stream: each byte is delivered once and in order.  read_until returns   *)
(* what was undelivered when it was called up to and including its first   *)
(* ';', or all of it if it holds none, and so returns nothing only at the  *)
(* end of the stream; called alone until it returns nothing, it returns    *)
(* the records of the stream.                                              *)

\* The bytes of s up to and including its first ';', or s.
UpToDelimiter(s) == IF Memchr(s) > 0 THEN SubSeq(s, 1, Memchr(s)) ELSE s

\* C39: the reader keeps 0 <= pos <= cap <= the buffer size, delivers each
\* byte of the stream once and in order whatever the chunks of the inner
\* reader, and read_until returns each record whole and 0 only at the end.
C39_ReaderDelivers ==
    /\ 0 <= backup_reader.pos
    /\ backup_reader.pos <= backup_reader.cap
    /\ backup_reader.cap <= BufSize
    /\ Len(backup_reader.buf) = BufSize
    /\ reads.delivered \o Available(backup_reader) \o backup_reader.inner
            = reads.stream
    /\ reads.returned # None =>
            /\ reads.returned[1] = UpToDelimiter(reads.rest)
            /\ reads.returned[1] = <<>> => reads.rest = <<>>
    /\ (~reads.mixed /\ reads.returned = Some(<<>>)) =>
            reads.records = ReadUntil(reads.stream, <<>>)

\* read_until has returned the record "abcd;", longer than the buffer, after
\* the buffer was filled more than once.
C39_Witness ==
    /\ reads.returned = Some(<<97, 98, 99, 100, 59>>)
    /\ ~reads.mixed
    /\ Len(reads.returned[1]) > BufSize
    /\ backup_reader.inner = <<101>>

=============================================================================
